---- MODULE Spec2Model ----
(***************************************************************************)
(* A model of go-varlink: the server dispatcher of a session               *)
(* (Server.ServeSession, replyWriter), the full-duplex Session             *)
(* multiplexer (WriteCall, ReadReply, ReadCall), the accept loop           *)
(* (Server.Serve), the client side (Transport, ReplyStream) and the        *)
(* descriptors a UnixConn receives.  Each part has its own specification   *)
(* and leaves the variables of the other parts alone.                      *)
(***************************************************************************)
EXTENDS Integers, Sequences, FiniteSets, TLC

\* ------------------------------------------------------------------ bounds

\* Number of calls the peer pipelines on a served session.
MaxCalls == 3
\* Server.MaxPipelineSize as configured by the user of the Server.
MaxPipelineSize == 1
\* Number of WriteReply/WriteError invocations the handler makes at most, over
\* all the calls of the session.
MaxHandlerWrites == 2

\* Number of goroutines that each make one call on a shared client Session.
NumCallers == 2
\* Number of continues=true replies the peer sends at most, over all the calls.
MaxContinues == 1
\* Number of messages of the peer that the connection holds unread at most.
MaxInbound == 2
\* Number of calls the peer itself makes on the shared client Session.
MaxPeerCalls == 1

\* Number of connections Serve's listener accepts at most.
MaxConns == 3

\* Number of replies the peer sends for the call of a ReplyStream at most.
MaxReplies == 3
\* Number of times the owner of a ReplyStream calls Next at most.
MaxNext == 6

\* Number of RoundTrip invocations on one Transport.
MaxTrips == 3
\* Largest value of Transport.MaxKeepAliveSessions that is configured.
MaxKeepAlive == 2
\* RoundTrips that are passed a session.
MaxWithSession == 1

\* Number of messages the peer sends on a connection that passes descriptors.
MaxFdMsgs == 3
\* UnixConn.Write: descriptors passed, bytes of one Write, calls of Write.
MaxPassFds == 3
MaxWriteLen == 3
MaxWrites == 2
\* Number of file descriptors the peer attaches to one message at most.
MaxFdsPerMsg == 2

\* The pipeline size ServeSession falls back to.
DefaultPipelineSize == 128

\* --------------------------------------------------------------- variables

VARIABLES
    \* -- served session: environment
    peer,        \* "open" | "closed" (peer hung up) | "reset" (connection error)
                 \* | "shut" (Session.Close on this side)
    werr,        \* sticky error of the session's bufio.Writer: "none" | "epipe" | "ioerr"
    \* -- Server configuration, fixed at construction
    handlerNil,  \* Server.Handler == nil
    overflowFn,  \* the Error Server.PipelineOverflowErrorFunc returns, NilFunc if unset
    \* -- ServeSession: reader loop
    rdPc,        \* "idle" | "reading" | "select" | "exited"
    rdCall,      \* the call the reader loop holds
    nRead,       \* how many calls ReadCall has returned
    rdErr,       \* the error of the reader loop's last ReadCall
    rejected,    \* ids of the calls that took the default (overflow) branch
    \* -- ServeSession: pipeline and worker
    pipeline,    \* chan Call
    wkPc,        \* "recv" | "notfound" | "handler" | "checked" | "exited"
    wkCall,      \* the call the worker took
    replied,     \* replyWriter.replied of the worker's current writer
    hwrites,     \* WriteReply/WriteError invocations the handler has made
    \* -- session context (context.WithCancelCause)
    ctxDone,
    ctxCause,    \* "none" | "Canceled" | "PeerDisconnected"
    \* -- the connection, as written by the server
    sent,        \* replies handed to Session.WriteReply, in order
    crashed,     \* a panic took the process down
    \* -- client Session shared by several goroutines
    wire,        \* calls written to the connection, in the order of the writes
    inflight,    \* Session.inflight
    inbound,     \* messages the peer has written and the Session has not read
    rq,          \* Session.rq
    cq,          \* Session.cq
    reading,     \* Session.reading
    cpc,         \* position of each calling goroutine
    got,         \* the reply readReply has stored for each calling goroutine
    spc,         \* position of the goroutine that calls ReadCall
    delivered,   \* replies ReadReply has returned, in order, with their receiver
    peerIdx,     \* index in wire of the call the peer answers next
    peerCont,    \* continues=true replies the peer has sent
    peerCalls,   \* calls the peer has made
    cctx,        \* the context of the goroutines using the Session is done
    queued,      \* the reading goroutine has queued a message since it began to read
    \* -- Server.Serve
    lst,         \* the listener: "open" | "closed" (net.ErrClosed) | "broken"
    svPc,        \* "accept" | "cancel" | "wait" | "returned"
    svRet,       \* the error Serve returns: "unset" | "nil" | "error"
    svCtx,       \* the context Serve hands to ServeConn is done
    conns,       \* per accepted connection: "none" | "serving" | "closing" | "done"
    \* -- ReplyStream
    rsN,         \* how many replies the peer sends for the call of the stream
    rsBroken,    \* the session failed or the context of the stream is done
    rsMore,      \* ReplyStream.more
    rsCur,       \* ReplyStream.cur
    rsErr,       \* ReplyStream.err: "nil" | "session" | "varlinkError"
    rsGot,       \* replies ReadReply has returned to the stream
    rsTried,     \* times Next has called ReadReply
    rsRet,       \* what the calls of Next have returned, in order
    \* -- Transport
    tsMax,       \* Transport.MaxKeepAliveSessions
    pool,        \* Transport.sessions: per URI, the content of the channel
    sess,        \* per session: "none" | "open" | "closed", whether an operation
                 \* on it has returned an error, and the URI it was dialed at
    rtPc,        \* per RoundTrip: "idle" | "write" | "stream" | "done"
    rtCall,      \* the Call of each RoundTrip
    rtKey,       \* the URI each RoundTrip passes to takeSession and giveSession
    rtSess,      \* the session of each RoundTrip, 0 if none
    rtErr,       \* the error of each RoundTrip: "nil" | "dial" | "write" | "read"
    \* -- UnixConn: received file descriptors
    fdSock,      \* messages in the socket, each with the descriptors attached to it
    fdSent,      \* how many messages the peer has sent
    fdArr,       \* the backing arrays allocated for UnixConn.rfds, in order
    rfds,        \* UnixConn.rfds: a slice, [arr |-> backing array, len |-> length]
    fdMsgs,      \* the messages readMsgUnlocked has delivered: what the peer
                 \* attached, the slice in their FileDescriptors field, and
                 \* what became of the message (fate)
    fdConn,      \* the UnixConn of the session: "open" | "closed"
    fdClosed,    \* the descriptors sysClose has been called on
    rbuf,        \* the messages in the buffer of session.rw, read from the
                 \* socket and not framed yet: what the peer attached to each

    \* the read side of a Session, lock by lock (session.go, sync.go)
    rcondL,      \* who holds rcond.L: a goroutine or "none"
    condL,       \* who holds cond.L: a goroutine or "none"
    rdg,         \* session.reading
    pcq,         \* session.cq: the parked calls
    prq,         \* session.rq: the parked replies
    sock,        \* the messages the peer has sent and nobody has read yet
    sockUp,      \* the connection is open
    sockSent,    \* how many messages the peer has sent; a message is its number
    gpc,         \* where each goroutine is in ReadReply or ReadCall
    hand,        \* the message each goroutine has in *reply or *call
    gerr,        \* the goroutine is returning an error
    woken,       \* the goroutines in rcond.Wait whose wake channel is closed
    gctx,        \* the context of the goroutines is done
    retCalls,    \* the calls ReadCall has returned, in the order of the returns
    retReplies,  \* the replies ReadReply has returned, in that order
    nolock,      \* the conds on which Broadcast ran without their lock held
    kpc,         \* where the goroutine calling Session.Close is

    \* the parser of interface definitions (syntax/lex.go, syntax/parse.go)
    doc,         \* the document given to NewParser: a sequence of lexemes
    parsed       \* what Parse made of the document

VARIABLES
    \* UnixConn: sending file descriptors (unix.go, sock_unix.go)
    wfds,        \* UnixConn.wfds: the descriptors queued by PassFds
    wpc,         \* where Write is: "idle" | "send"
    wbuf,        \* send: how many bytes of buf are left
    woob,        \* send: the descriptors in oob
    wwritten,    \* send: written
    wwire,       \* the sendmsg calls that sent something: bytes, descriptors,
                 \* and whether it was the first of its Write
    wpassed,     \* how many descriptors PassFds has been given
    wret         \* what the calls of Write have returned, in order

VARIABLES
    \* cond and the in-flight list of a Session (sync.go, session.go)
    condHolder,  \* who holds cond.L: a goroutine, or 0
    condWake,    \* cond.wake: a channel, numbered in the order of make
    chMade,      \* how many channels have been made
    chClosed,    \* the channels that are closed
    wakeOf,      \* per goroutine in cond.Wait: the channel it read from c.wake
    ipc,         \* where each goroutine is in WriteCall and ReadReply
    ifl,         \* session.inflight: the goroutines whose calls are in flight
    iconn,       \* the connection of the session: "open" | "closed"
    ictx,        \* the goroutines whose context is done
    ipanic,      \* a goroutine has panicked: close of a closed channel
    clpc,        \* where Session.Close is: "idle" | "loaded" | "closed" | "done"
    clch,        \* the channel Close read from c.wake
    bsince       \* the goroutines in the select of cond.Wait for which a
                 \* Broadcast has closed a channel since they released cond.L

VARIABLES
    \* the token channel of a Lexer (syntax/lex.go)
    lxIn,        \* the runes Lexer.Input has not yet returned
    lxEnd,       \* the error Input.ReadRune returns after them: "EOF" | "ioerr"
    lxState,     \* Lexer.state: "lex" | "lexIdentifier" | "nil"
    lxTokens,    \* the tokens in the channel Lexer.tokens
    lxClosed,    \* Lexer.tokens is closed
    lxBlocked,   \* a send found the channel full: the goroutine waits for ever
    lxPanic,     \* the nil state was called
    lxRet        \* the types of the tokens Next has returned

srvVars == <<peer, werr, handlerNil, overflowFn, rdPc, rdCall,
             nRead, rdErr, rejected, pipeline, wkPc, wkCall, replied, hwrites,
             ctxDone, ctxCause, sent, crashed>>

sessVars == <<wire, inflight, inbound, rq, cq, reading, cpc, got, spc,
              delivered, peerIdx, peerCont, peerCalls, cctx, queued>>

serveVars == <<lst, svPc, svRet, svCtx, conns>>

strmVars == <<rsN, rsBroken, rsMore, rsCur, rsErr, rsGot, rsTried, rsRet>>

tsVars == <<tsMax, pool, sess, rtPc, rtCall, rtKey, rtSess, rtErr>>

fdVars == <<fdSock, fdSent, fdArr, rfds, fdMsgs, fdConn, fdClosed, rbuf>>

lockVars == <<rcondL, condL, rdg, pcq, prq, sock, sockUp, sockSent, gpc, hand,
              gerr, woken, gctx, retCalls, retReplies, nolock, kpc>>

synVars == <<doc, parsed>>

wrVars == <<wfds, wpc, wbuf, woob, wwritten, wwire, wpassed, wret>>

condVars == <<condHolder, condWake, chMade, chClosed, wakeOf, ipc, ifl, iconn,
              ictx, ipanic, clpc, clch, bsince>>

lxVars == <<lxIn, lxEnd, lxState, lxTokens, lxClosed, lxBlocked, lxPanic, lxRet>>

vars == <<srvVars, sessVars, serveVars, strmVars, tsVars, fdVars, lockVars,
          synVars,
          wrVars,
          condVars,
          lxVars>>

\* What the actions of one part of the program leave alone.
restOfSrv   == <<sessVars, serveVars, strmVars, tsVars, fdVars, lockVars, synVars, wrVars, condVars, lxVars>>
restOfSess  == <<srvVars, serveVars, strmVars, tsVars, fdVars, lockVars, synVars, wrVars, condVars, lxVars>>
restOfServe == <<srvVars, sessVars, strmVars, tsVars, fdVars, lockVars, synVars, wrVars, condVars, lxVars>>
restOfStrm  == <<srvVars, sessVars, serveVars, tsVars, fdVars, lockVars, synVars, wrVars, condVars, lxVars>>
restOfTs    == <<srvVars, sessVars, serveVars, strmVars, fdVars, lockVars, synVars, wrVars, condVars, lxVars>>
restOfFd    == <<srvVars, sessVars, serveVars, strmVars, tsVars, lockVars, synVars, wrVars, condVars, lxVars>>
restOfLock  == <<srvVars, sessVars, serveVars, strmVars, tsVars, fdVars, synVars, wrVars, condVars, lxVars>>
restOfSyn   == <<srvVars, sessVars, serveVars, strmVars, tsVars, fdVars, lockVars, wrVars, condVars, lxVars>>
restOfWr    == <<srvVars, sessVars, serveVars, strmVars, tsVars, fdVars, lockVars, synVars, condVars, lxVars>>
restOfCond  == <<srvVars, sessVars, serveVars, strmVars, tsVars, fdVars, lockVars, synVars, wrVars, lxVars>>
restOfLx    == <<srvVars, sessVars, serveVars, strmVars, tsVars, fdVars, lockVars, synVars, wrVars, condVars>>

\* ------------------------------------------------------------------ errors

\* Go error values are chains: a sequence of nodes, each wrapping the next.
ErrPeerDisconnected == <<"errDisconnected">>
ErrEPIPE            == <<"EPIPE">>
\* sendmsgEintr wraps the errno of a failed sendmsg in an os.SyscallError.
ErrSendEPIPE        == <<"SyscallError", "EPIPE">>
ErrSendReset        == <<"SyscallError", "ECONNRESET">>
ErrRecvReset        == <<"SyscallError", "ECONNRESET">>
\* A read of a connection this side has closed: net.OpError around net.ErrClosed.
ErrNetClosed        == <<"OpError", "net.ErrClosed">>
ErrIoEOF            == <<"EOF">>
ErrCtxCanceled      == <<"context.Canceled">>
ErrNone             == <<>>

RECURSIVE ErrorsIs(_, _)
RECURSIVE errDisconnectedIs(_)

\* errDisconnected.Is(err): the receiver is the errDisconnected value, err the
\* argument it is compared with.
errDisconnectedIs(err) ==
    \/ err = ErrPeerDisconnected
    \/ ErrorsIs(err, ErrEPIPE)

\* errors.Is(err, target) of the Go standard library: walks err's chain; a node
\* matches when it equals target or when the node's own Is method accepts target.
ErrorsIs(err, target) ==
    \E i \in 1..Len(err) :
        \/ SubSeq(err, i, Len(err)) = target
        \/ /\ err[i] = "errDisconnected"
           /\ errDisconnectedIs(target)

\* readMsgUnlocked passing the error of the read through unchanged.
readMsgErrorRaw(err) == err

\* Session.readMsgUnlocked: io.EOF becomes ErrPeerDisconnected, any other error
\* is returned as it is.
readMsgError(err) == IF err = ErrIoEOF THEN ErrPeerDisconnected ELSE err


\* ------------------------------------------------------- values and replies

\* NewError(code, kvs...): Parameters stays nil unless key-value pairs are given.
NewError(code, nkvs) ==
    [kind |-> "varlinkError", code |-> code,
     parameters |-> IF nkvs = 0 THEN "" ELSE "{kvs}"]

\* The generated error constructors of internal/service: structs with fields.
MethodNotFound       == [kind |-> "struct", code |-> "org.varlink.service.MethodNotFound",
                         parameters |-> "{method}"]
MethodNotImplemented == [kind |-> "struct", code |-> "org.varlink.service.MethodNotImplemented",
                         parameters |-> "{method}"]
\* An ordinary reply value, and a value encoding/json cannot encode.
PlainParams  == [kind |-> "struct", code |-> "", parameters |-> "{out}"]
BadParams    == [kind |-> "chan", code |-> "", parameters |-> ""]

\* (*varlinkError).MarshalJSON: the raw Parameters, whatever they are.
varlinkErrorMarshalJSON(v) == v.parameters

\* json.Marshal: the bytes, or "" with ok = FALSE. The output of a MarshalJSON
\* method must itself be a JSON document; an empty one is refused.
JsonMarshal(v) ==
    CASE v.kind = "varlinkError" ->
            LET data == varlinkErrorMarshalJSON(v)
            IN  [ok |-> data # "", data |-> data]
      [] v.kind = "struct" -> [ok |-> TRUE, data |-> v.parameters]
      [] OTHER -> [ok |-> FALSE, data |-> ""]

\* MakeReply(params, opts...): fails when params do not marshal.
MakeReply(params, continues, code) ==
    LET m == JsonMarshal(params)
    IN  [ok |-> m.ok,
         reply |-> [parameters |-> m.data, continues |-> continues, error |-> code]]

\* What a write on the connection can yield: bufio.Writer keeps its first error;
\* a peer that hung up gives EPIPE (or still accepts, when it only stopped
\* sending); a broken connection gives another errno.
WriteResults ==
    IF werr # "none" THEN {werr}
    ELSE CASE peer = "open"   -> {"ok"}
           [] peer = "closed" -> {"ok", "epipe"}
           [] OTHER           -> {"ioerr"}

\* Session.writeMsg: the error of a write with result res.
writeMsg(res) ==
    CASE res = "ok"    -> ErrNone
      [] res = "epipe" -> ErrSendEPIPE
      [] OTHER         -> ErrSendReset

\* writeReply without the check of replied.
WriteReplyOutcomeNoPanic(wreplied, params, res) ==
    IF ctxDone THEN "ctxerr"
    ELSE IF ~MakeReply(params, FALSE, "").ok THEN "marshalerr"
    ELSE IF res = "ok" THEN "written"
    ELSE "writeerr"

\* WriteReply checking replied before the context and the parameters.
WriteReplyOutcomePanicFirst(wreplied, params, res) ==
    IF wreplied THEN "panic"
    ELSE IF ctxDone THEN "ctxerr"
    ELSE IF ~MakeReply(params, FALSE, "").ok THEN "marshalerr"
    ELSE IF res = "ok" THEN "written"
    ELSE "writeerr"

\* replyWriter.WriteReply down to the write, for a writer whose replied flag is
\* wreplied: which way the invocation ends.
WriteReplyOutcome(wreplied, params, res) ==
    IF ctxDone THEN "ctxerr"
    ELSE IF ~MakeReply(params, FALSE, "").ok THEN "marshalerr"
    ELSE IF wreplied THEN "panic"
    ELSE IF res = "ok" THEN "written"
    ELSE "writeerr"

\* context.CancelCauseFunc: the first cancellation sets the cause.
CancelCause(cause) ==
    /\ ctxDone' = TRUE
    /\ ctxCause' = IF ctxDone THEN ctxCause ELSE cause

\* replyWriter.writeReply: whether the failed write counts as a disconnect.
IsDisconnect(err) == ErrorsIs(err, ErrPeerDisconnected)

\* replyWriter.WriteReply / writeReply on the session: everything but the
\* writer's own replied flag.
WriteReplyEffects(wreplied, call, params, continues, code, res) ==
    LET out     == WriteReplyOutcome(wreplied, params, res)
        reached == out \in {"written", "writeerr"}
    IN  /\ crashed' = (out = "panic")
        /\ sent' = IF reached
                   THEN Append(sent, [call |-> call.id, continues |-> continues,
                                      error |-> code])
                   ELSE sent
        /\ werr' = IF reached /\ res # "ok" THEN res ELSE werr
        /\ IF reached /\ IsDisconnect(writeMsg(res))
           THEN CancelCause("PeerDisconnected")
           ELSE UNCHANGED <<ctxDone, ctxCause>>

\* A replied flag that a reply with continues set also raises.
RepliedAfterAny(wreplied, params, continues, res) ==
    IF WriteReplyOutcome(wreplied, params, res) \in {"written", "writeerr"}
    THEN TRUE
    ELSE wreplied

\* The replied flag after the invocation.
RepliedAfter(wreplied, params, continues, res) ==
    IF WriteReplyOutcome(wreplied, params, res) \in {"written", "writeerr"} /\ ~continues
    THEN TRUE
    ELSE wreplied

\* ----------------------------------------------------- ServeSession: set-up

\* ServeSession: maxPipelineSize, the capacity of the pipeline channel.
maxPipelineSize ==
    IF MaxPipelineSize <= 0 THEN DefaultPipelineSize ELSE MaxPipelineSize

\* A pipeline channel with room for one more call.
PipelineFullOneMore == Len(pipeline) >= maxPipelineSize + 1

\* A send on the pipeline channel would block.
PipelineFull == Len(pipeline) >= maxPipelineSize

\* The Errors a PipelineOverflowErrorFunc is taken to return: one built with
\* key-value pairs and one built from the code alone.
OverflowErrors == {NewError("org.example.Busy", 1), NewError("org.example.Busy", 0)}

\* Server.PipelineOverflowErrorFunc left unset.
NilFunc == [kind |-> "nil", code |-> "", parameters |-> ""]

\* pipelineErrorFunc == nil in ServeSession.
pipelineErrorFuncNil == overflowFn = NilFunc

NoCall == [id |-> 0]

Callers == 1..NumCallers

NoMsg == [isCall |-> FALSE, for |-> 0, continues |-> FALSE]

\* The Session as NewSession returns it, with its users and its peer at rest.
NewSession ==
    /\ wire = <<>>
    /\ inflight = <<>>
    /\ inbound = <<>>
    /\ rq = <<>>
    /\ cq = <<>>
    /\ reading = FALSE
    /\ cpc = [c \in Callers |-> "start"]
    /\ got = [c \in Callers |-> NoMsg]
    /\ spc = "idle"
    /\ delivered = <<>>
    /\ peerIdx = 1
    /\ peerCont = 0
    /\ peerCalls = 0
    /\ cctx = FALSE
    /\ queued = FALSE

\* The Server and the session it is about to serve.
NewServer ==
    /\ peer = "open"
    /\ werr = "none"
    /\ handlerNil \in BOOLEAN
    /\ overflowFn \in {NilFunc} \cup OverflowErrors
    /\ rdPc = "idle"
    /\ rdCall = NoCall
    /\ nRead = 0
    /\ rdErr = ErrNone
    /\ rejected = {}
    /\ pipeline = <<>>
    /\ wkPc = "recv"
    /\ wkCall = NoCall
    /\ replied = FALSE
    /\ hwrites = 0
    /\ ctxDone = FALSE
    /\ ctxCause = "none"
    /\ sent = <<>>
    /\ crashed = FALSE

\* Serve on entry: the listener is open and nothing has been accepted.
Conns == 1..MaxConns

NewServe ==
    /\ lst = "open"
    /\ svPc = "accept"
    /\ svRet = "unset"
    /\ svCtx = FALSE
    /\ conns = [i \in Conns |-> "none"]

\* The zero Reply.
NoReply == [continues |-> FALSE, error |-> ""]

\* NewReplyStream, for a call the peer answers with one reply.
NewReplyStream ==
    /\ rsN = 1
    /\ rsBroken = FALSE
    /\ rsMore = TRUE
    /\ rsCur = NoReply
    /\ rsErr = "nil"
    /\ rsGot = 0
    /\ rsTried = 0
    /\ rsRet = <<>>

\* The zero URI, and the URIs that calls name.
EmptyURI == [scheme |-> "", address |-> ""]
CallURIs == {EmptyURI, [scheme |-> "unix", address |-> "/run/example"]}

\* The URI RoundTrip computes for a call: every call names a method of the
\* interface org.example, the method name up to its last '.'.
DefaultedURI(call) ==
    IF call.uri = EmptyURI
    THEN [scheme |-> "unix", address |-> "@org.example"]
    ELSE call.uri

\* The keys of Transport.sessions.
URIs == CallURIs \cup {DefaultedURI([uri |-> EmptyURI])}

Trips == 1..MaxTrips

NoSess == [state |-> "none", failed |-> FALSE, uri |-> EmptyURI]
NoTripCall == [uri |-> EmptyURI, upgrade |-> FALSE]

\* A zero Transport with MaxKeepAliveSessions unset, before any RoundTrip.
NewTransport ==
    /\ tsMax = 0
    /\ pool = [u \in URIs |-> <<>>]
    /\ sess = [i \in Trips |-> NoSess]
    /\ rtPc = [r \in Trips |-> "idle"]
    /\ rtCall = [r \in Trips |-> NoTripCall]
    /\ rtKey = [r \in Trips |-> EmptyURI]
    /\ rtSess = [r \in Trips |-> 0]
    /\ rtErr = [r \in Trips |-> "nil"]

\* The nil slice.
NilSlice == [arr |-> 0, len |-> 0]

\* A UnixConn on which nothing has been received.
\* ------------------------------------------------- syntax: lexer and parser
\* A document is a sequence of lexemes; whitespace, which Parser.Next skips,
\* is left out.  "nl" is a newline, "#" a comment with the newline that ends
\* it, "!" a character the lexer refuses.  The lexer is pulled: a lexeme is
\* classified when Parser.Next first asks for it, under the coercion that is
\* set at that moment.

MaxDoc == 12
MaxBlanks == 2

Blanks == {"nl", "#"}
Lexemes == {"interface", "a.b", "type", "T", "a", "int", "(", ")", ":", ",", "!"}
             \cup Blanks

\* The groups of reIdentifier that match the whole identifier.
Groups(x) ==
    (IF x \in {"T"} THEN {"name"} ELSE {})
      \cup (IF x \in {"a.b"} THEN {"intf"} ELSE {})
      \cup (IF x \in {"a", "T", "type", "int", "interface"} THEN {"field"} ELSE {})
      \cup (IF x \in {"type", "int", "interface"} THEN {"keyword"} ELSE {})

\* Lexer.lexIdentifier: the coercion rules, then the normal rules.
lexIdentifier(x, coerce) ==
    CASE coerce = "<name>" /\ "name" \in Groups(x)             -> "<name>"
      [] coerce = "<interface-name>" /\ "intf" \in Groups(x)   -> "<interface-name>"
      [] coerce = "<field-name>" /\ "field" \in Groups(x)      -> "<field-name>"
      [] "keyword" \in Groups(x)                               -> x
      [] "name" \in Groups(x)                                  -> "<name>"
      [] "intf" \in Groups(x)                                  -> "<interface-name>"
      [] OTHER                                                 -> "<field-name>"

\* Lexer.lex: the type of the token made from one lexeme.
lex(x, coerce) ==
    CASE x \in {"(", ")", ":", ","} -> x
      [] x = "nl" -> "<newline>"
      [] x = "#"  -> "<comment>"
      [] x = "!"  -> "<error>"
      [] OTHER    -> lexIdentifier(x, coerce)

EOFToken == [type |-> "", raw |-> ""]
NoError == [raw |-> "", type |-> "", expect |-> {}, fn |-> ""]
NoNode == [kind |-> "", names |-> <<>>]

\* The value of a singleton.  In The({e : r \in {v}}) the expression v is
\* evaluated once and e is evaluated with r naming its value, the way a Go
\* statement names the result of a call; the statements of a function are read
\* from the innermost binding (the last line) outwards.
The(S) == CHOOSE x \in S : TRUE

\* NewParser(in): nothing lexed, no coercion, nothing pushed back.
NewParser(in) ==
    [in |-> in, prev |-> <<>>, coerce |-> "", st |-> "run", err |-> NoError,
     eof |-> FALSE]

\* Parser.error: panic with an *Error, which Parse recovers and returns.
Parser_error(p, tok, expect, fn) ==
    [p EXCEPT !.st = "error",
              !.err = [raw |-> tok.raw, type |-> tok.type, expect |-> expect,
                       fn |-> fn]]

\* Parser.Next: the token on top of prev, or the next token of the lexer; an
\* error token of the lexer is raised as the error of the parse.
Parser_Next(p) ==
    IF p.st # "run" THEN [p |-> p, tok |-> EOFToken]
    ELSE IF p.prev # <<>>
    THEN [p |-> [p EXCEPT !.prev = SubSeq(p.prev, 1, Len(p.prev) - 1)],
          tok |-> p.prev[Len(p.prev)]]
    ELSE IF p.in = <<>>
    THEN [p |-> [p EXCEPT !.eof = TRUE], tok |-> EOFToken]
    ELSE The({[p |-> IF tok.type = "<error>"
                     THEN Parser_error([p EXCEPT !.in = Tail(p.in)], tok, {}, "Lexer")
                     ELSE [p EXCEPT !.in = Tail(p.in)],
               tok |-> tok] :
              tok \in {[type |-> lex(Head(p.in), p.coerce), raw |-> Head(p.in)]}})

\* Parser.Back(tokens...): pushed in reverse, the first one ends on top.
Parser_Back(p, tokens) ==
    [p EXCEPT !.prev = p.prev \o [i \in 1..Len(tokens) |->
                                      tokens[Len(tokens) - i + 1]]]

\* Parser.Accept(expect...) called by function fn.
Parser_Accept(p, expect, fn) ==
    The({IF r.p.st # "run" \/ r.tok.type \in expect THEN r
         ELSE [p |-> Parser_error(r.p, r.tok, expect, fn), tok |-> r.tok] :
         r \in {Parser_Next(p)}})

\* p.lexer.CoerceIdentifierType = typ
SetCoerce(p, typ) == [p EXCEPT !.coerce = typ]

RECURSIVE CommentsFrom(_, _)
\* Parser.Comments: comments are collected, a newline drops them, the end of
\* the input is consumed, any other token is pushed back.
CommentsFrom(p, comments) ==
    The({CASE r.p.st # "run"           -> [p |-> r.p, comments |-> comments]
           [] r.tok.type = "<comment>" -> CommentsFrom(r.p, Append(comments, r.tok))
           [] r.tok.type = "<newline>" -> CommentsFrom(r.p, <<>>)
           [] r.tok.type = ""          -> [p |-> r.p, comments |-> comments]
           [] OTHER -> [p |-> Parser_Back(r.p, <<r.tok>>), comments |-> comments] :
         r \in {Parser_Next(p)}})

Comments(p) == CommentsFrom(p, <<>>)

\* After a value or a field: the optional comma, then ")", a comment, a
\* newline or the next name, accepted under the field-name coercion.  The
\* result has the parser, the token accepted and whether the comma was missing.
AfterItem(p, fn) ==
    The({The({[p |-> SetCoerce(next.p, ""), tok |-> next.tok,
               last |-> comma.tok.type # ","] :
              next \in {Parser_Accept(
                            SetCoerce(IF comma.tok.type # ","
                                      THEN Parser_Back(comma.p, <<comma.tok>>)
                                      ELSE comma.p, "<field-name>"),
                            {")", "<comment>", "<newline>", "<field-name>"}, fn)}}) :
         comma \in {Parser_Next(p)}})

\* The head of the loop of Enum and Struct: Comments, then a name or ")"
\* accepted under the field-name coercion, which is cleared afterwards.
NameOrRParen(p, fn) ==
    The({The({[p |-> SetCoerce(name.p, ""), tok |-> name.tok,
               comments |-> c.comments] :
              name \in {Parser_Accept(SetCoerce(c.p, "<field-name>"),
                                      {"<field-name>", ")"}, fn)}}) :
         c \in {Comments(p)}})

RECURSIVE EnumLoop(_, _, _)
\* The loop of Parser.Enum.
EnumLoop(p, values, last) ==
    The({IF name.p.st # "run" THEN [p |-> name.p, node |-> NoNode]
         ELSE IF name.tok.type = ")"
         THEN [p |-> name.p, node |-> [kind |-> "Enum", names |-> values]]
         ELSE IF last
         THEN [p |-> Parser_error(name.p, name.tok, {")"}, "Enum"), node |-> NoNode]
         ELSE The({IF next.p.st # "run" THEN [p |-> next.p, node |-> NoNode]
                   ELSE IF next.tok.type = ")"
                   THEN [p |-> next.p,
                         node |-> [kind |-> "Enum",
                                   names |-> Append(values, name.tok.raw)]]
                   ELSE IF next.tok.type = "<field-name>"
                   THEN EnumLoop(Parser_Back(next.p, <<next.tok>>),
                                 Append(values, name.tok.raw), next.last)
                   ELSE EnumLoop(next.p, Append(values, name.tok.raw), next.last) :
                   next \in {AfterItem(name.p, "Enum")}}) :
         name \in {NameOrRParen(p, "Enum")}})

\* Parser.Enum: "(", then a name, a comment or a newline, then the loop; the
\* coercion set on entry stays until the loop clears it.
Enum(p) ==
    The({The({IF next.p.st # "run" THEN [p |-> next.p, node |-> NoNode]
              ELSE IF next.tok.type = "<field-name>"
              THEN EnumLoop(Parser_Back(next.p, <<next.tok>>), <<>>, FALSE)
              ELSE EnumLoop(next.p, <<>>, FALSE) :
              next \in {Parser_Accept(start.p,
                                      {"<field-name>", "<comment>", "<newline>"},
                                      "Enum")}}) :
         start \in {Parser_Accept(SetCoerce(p, "<field-name>"), {"("}, "Enum")}})

RECURSIVE ElementType(_)

\* Parser.Type: with no "?", "[]" or "[string]" in the documents, Type and
\* NonNullableType take the token and push it back.
Type(p) == ElementType(p)

RECURSIVE StructLoop(_, _, _)
\* The loop of Parser.Struct.
StructLoop(p, fields, last) ==
    The({IF name.p.st # "run" THEN [p |-> name.p, node |-> NoNode]
         ELSE IF name.tok.type = ")"
         THEN [p |-> name.p, node |-> [kind |-> "Struct", names |-> fields]]
         ELSE IF last
         THEN [p |-> Parser_error(name.p, name.tok, {")"}, "Struct"), node |-> NoNode]
         ELSE The({IF next.p.st # "run" THEN [p |-> next.p, node |-> NoNode]
                   ELSE IF next.tok.type = ")"
                   THEN [p |-> next.p,
                         node |-> [kind |-> "Struct",
                                   names |-> Append(fields, name.tok.raw)]]
                   ELSE IF next.tok.type = "<field-name>"
                   THEN StructLoop(Parser_Back(next.p, <<next.tok>>),
                                   Append(fields, name.tok.raw), next.last)
                   ELSE StructLoop(next.p, Append(fields, name.tok.raw), next.last) :
                   next \in {AfterItem(Type(Parser_Accept(name.p, {":"}, "Struct").p).p,
                                       "Struct")}}) :
         name \in {NameOrRParen(p, "Struct")}})

\* Parser.Struct: "(", then under the field-name coercion ")", a name, a
\* comment or a newline, then the loop.
Struct(p) ==
    The({The({IF next.p.st # "run" THEN [p |-> next.p, node |-> NoNode]
              ELSE IF next.tok.type = ")"
              THEN [p |-> SetCoerce(next.p, ""),
                    node |-> [kind |-> "Struct", names |-> <<>>]]
              ELSE IF next.tok.type = "<field-name>"
              THEN StructLoop(Parser_Back(SetCoerce(next.p, ""), <<next.tok>>),
                              <<>>, FALSE)
              ELSE StructLoop(SetCoerce(next.p, ""), <<>>, FALSE) :
              next \in {Parser_Accept(SetCoerce(start.p, "<field-name>"),
                                      {"<field-name>", "<comment>", "<newline>", ")"},
                                      "Struct")}}) :
         start \in {Parser_Accept(p, {"("}, "Struct")}})

\* Parser.ElementType after "(": the comments and the first name (or ")") are
\* read under the field-name coercion; after a name, ":" or "," is required;
\* everything is pushed back for Struct (")" or ":") or Enum (",").
ElementTypeParen(p, lparen) ==
    The({IF f.p.st # "run" THEN [p |-> f.p, node |-> NoNode]
         ELSE IF f.tok.type = ")"
         THEN Struct(Parser_Back(Parser_Back(Parser_Back(f.p, <<f.tok>>),
                                             f.comments), <<lparen>>))
         ELSE The({IF cc.p.st # "run" THEN [p |-> cc.p, node |-> NoNode]
                   ELSE IF cc.tok.type = ":"
                   THEN Struct(Parser_Back(Parser_Back(
                                   Parser_Back(cc.p, <<f.tok, cc.tok>>),
                                   f.comments), <<lparen>>))
                   ELSE Enum(Parser_Back(Parser_Back(
                                 Parser_Back(cc.p, <<f.tok, cc.tok>>),
                                 f.comments), <<lparen>>)) :
                   cc \in {Parser_Accept(f.p, {":", ","}, "ElementType")}}) :
         f \in {NameOrRParen(SetCoerce(p, "<field-name>"), "ElementType")}})

\* Parser.ElementType: a builtin type, a named type, or after "(" the choice
\* between Struct and Enum; any other token is a panic with a string.
ElementType(p) ==
    The({CASE r.p.st # "run" -> [p |-> r.p, node |-> NoNode]
           [] r.tok.type = "int" ->
                 [p |-> r.p, node |-> [kind |-> "Builtin", names |-> <<"int">>]]
           [] r.tok.type = "<name>" ->
                 [p |-> r.p, node |-> [kind |-> "Named", names |-> <<r.tok.raw>>]]
           [] r.tok.type = "(" -> ElementTypeParen(r.p, r.tok)
           [] OTHER -> [p |-> [r.p EXCEPT !.st = "panic"], node |-> NoNode] :
         r \in {Parser_Next(p)}})

\* Parser.TypeDef: "type", a name, a type.
TypeDef(p) ==
    Type(Parser_Accept(Parser_Accept(p, {"type"}, "TypeDef").p, {"<name>"},
                       "TypeDef").p)

RECURSIVE ParseLoop(_, _)
\* The loop of Parser.Parse over the definitions of the interface.
ParseLoop(p, types) ==
    The({CASE token.p.st # "run" -> [p |-> token.p, types |-> types]
           [] token.tok.type = "type" ->
                 The({IF d.p.st # "run" THEN [p |-> d.p, types |-> types]
                      ELSE ParseLoop(d.p, Append(types, d.node)) :
                      d \in {TypeDef(Parser_Back(token.p, <<token.tok>>))}})
           [] token.tok.type = "" ->
                 [p |-> Parser_Back(token.p, <<token.tok>>), types |-> types]
           [] OTHER ->
                 [p |-> Parser_error(Parser_Back(token.p, <<token.tok>>), token.tok,
                                     {"type", "method", "error"}, "Parse"),
                  types |-> types] :
         token \in {Parser_Next(Comments(p).p)}})

\* Parser.Parse: how it ends ("run": it returns the interface; "error": the
\* deferred function recovers an *Error and returns it; "panic": the panic is
\* not an *Error and leaves Parse), the types it parsed, the token and the
\* Accept that failed, and whether the parser reached the end of the input.
Parse(in) ==
    The({[st |-> r.p.st, types |-> IF r.p.st = "run" THEN r.types ELSE <<>>,
          err |-> r.p.err, eof |-> r.p.eof] :
         r \in {ParseLoop(
                   Parser_Accept(
                     Parser_Accept(
                       Parser_Accept(Comments(NewParser(in)).p,
                                     {"interface"}, "Parse").p,
                       {"<interface-name>"}, "Parse").p,
                     {"<newline>", "<comment>"}, "Parse").p,
                   <<>>)}})

\* No document yet: the parser is given the empty input.
NewDocument ==
    /\ doc = <<>>
    /\ parsed = Parse(<<>>)

\* The goroutines that read from one Session: one calls ReadReply, two call
\* ReadCall; another one calls Session.Close.
Readers == {"rr", "rc1", "rc2"}
NoHand == [isCall |-> FALSE, id |-> 0, parked |-> FALSE]

\* A Session after NewSession, before any goroutine uses it.
NewLocks ==
    /\ rcondL = "none"
    /\ condL = "none"
    /\ rdg = FALSE
    /\ pcq = <<>>
    /\ prq = <<>>
    /\ sock = <<>>
    /\ sockUp = TRUE
    /\ sockSent = 0
    /\ gpc = [g \in Readers |-> "idle"]
    /\ hand = [g \in Readers |-> NoHand]
    /\ gerr = [g \in Readers |-> FALSE]
    /\ woken = {}
    /\ gctx = FALSE
    /\ retCalls = <<>>
    /\ retReplies = <<>>
    /\ nolock = {}
    /\ kpc = "idle"

\* A UnixConn nothing has been written to.
\* The goroutines that call WriteCall and then ReadReply on one Session.
Waiters == {1, 2, 3}

\* A new Session: makeCond has made the first channel; nothing is in flight.
\* NewLexer on an empty Input: the state is lex, the channel is empty.
NewLexer ==
    /\ lxIn = <<>>
    /\ lxEnd = "EOF"
    /\ lxState = "lex"
    /\ lxTokens = <<>>
    /\ lxClosed = FALSE
    /\ lxBlocked = FALSE
    /\ lxPanic = FALSE
    /\ lxRet = <<>>

NewInflight ==
    /\ condHolder = 0
    /\ condWake = 1
    /\ chMade = 1
    /\ chClosed = {}
    /\ wakeOf = [g \in Waiters |-> 0]
    /\ ipc = [g \in Waiters |-> "start"]
    /\ ifl = <<>>
    /\ iconn = "open"
    /\ ictx = {}
    /\ ipanic = FALSE
    /\ clpc = "idle"
    /\ clch = 0
    /\ bsince = {}

NewWriter ==
    /\ wfds = <<>>
    /\ wpc = "idle"
    /\ wbuf = 0
    /\ woob = <<>>
    /\ wwritten = 0
    /\ wwire = <<>>
    /\ wpassed = 0
    /\ wret = <<>>

NewUnixConn ==
    /\ fdSock = <<>>
    /\ fdSent = 0
    /\ fdArr = <<>>
    /\ rfds = NilSlice
    /\ fdMsgs = <<>>
    /\ fdConn = "open"
    /\ fdClosed = {}
    /\ rbuf = <<>>

\* The parts of the program a specification leaves at rest.
ServerAtRest == NewServer /\ handlerNil /\ pipelineErrorFuncNil

InitServer == NewServer /\ NewSession /\ NewServe /\ NewReplyStream /\ NewTransport
                 /\ NewUnixConn /\ NewLocks /\ NewDocument /\ NewWriter /\ NewInflight /\ NewLexer

\* ------------------------------------------------------------ environment

\* The peer closes its end of the connection.
PeerClose ==
    /\ ~crashed
    /\ peer = "open"
    /\ peer' = "closed"
    /\ UNCHANGED <<nRead, werr, handlerNil, overflowFn, rdPc, rdCall, rdErr,
                   rejected, pipeline, wkPc, wkCall, replied, hwrites,
                   ctxDone, ctxCause, sent, crashed>>
    /\ UNCHANGED restOfSrv

\* The connection breaks (reads and writes fail with an errno other than EPIPE).
PeerReset ==
    /\ ~crashed
    /\ peer = "open"
    /\ peer' = "reset"
    /\ UNCHANGED <<nRead, werr, handlerNil, overflowFn, rdPc, rdCall, rdErr,
                   rejected, pipeline, wkPc, wkCall, replied, hwrites,
                   ctxDone, ctxCause, sent, crashed>>
    /\ UNCHANGED restOfSrv

\* Session.Close while the session is served (by the owner of the session, or
\* by Transport.giveSession on a full pool): the connection is closed; no
\* context is touched.
SessionClose ==
    /\ ~crashed
    /\ peer = "open"
    /\ peer' = "shut"
    /\ UNCHANGED <<nRead, werr, handlerNil, overflowFn, rdPc, rdCall, rdErr,
                   rejected, pipeline, wkPc, wkCall, replied, hwrites,
                   ctxDone, ctxCause, sent, crashed>>
    /\ UNCHANGED restOfSrv

\* The context ServeSession was given is cancelled (Serve returns, or the
\* owner of the transport's serve context cancels it).
ParentCancel ==
    /\ ~crashed
    /\ ~ctxDone
    /\ CancelCause("Canceled")
    /\ UNCHANGED <<nRead, peer, werr, handlerNil, overflowFn, rdPc, rdCall,
                   rdErr, rejected, pipeline, wkPc, wkCall, replied, hwrites,
                   sent, crashed>>
    /\ UNCHANGED restOfSrv

\* ------------------------------------------------ ServeSession: reader loop

\* Whether the reader loop treats a ReadCall error as a peer disconnect.
ReaderSeesDisconnect(err) == ErrorsIs(err, ErrPeerDisconnected)

\* ReadCall is entered: readCallOrReply checks the context before it reads.
ReaderStart ==
    /\ ~crashed
    /\ rdPc = "idle"
    /\ rdPc' = IF ctxDone THEN "exited" ELSE "reading"
    /\ rdErr' = IF ctxDone THEN ErrCtxCanceled ELSE rdErr
    /\ UNCHANGED <<nRead, peer, werr, handlerNil, overflowFn, rdCall,
                   rejected, pipeline, wkPc, wkCall, replied, hwrites,
                   ctxDone, ctxCause, sent, crashed>>
    /\ UNCHANGED restOfSrv

\* ReadCall returns the next call the peer sent (sent before it hung up, if
\* it did).
ReaderRecv ==
    /\ ~crashed
    /\ rdPc = "reading"
    /\ peer \notin {"reset", "shut"}
    /\ nRead < MaxCalls
    /\ rdCall' = [id |-> nRead + 1]
    /\ nRead' = nRead + 1
    /\ rdErr' = ErrNone
    /\ rdPc' = "select"
    /\ UNCHANGED <<peer, werr, handlerNil, overflowFn, rejected, pipeline,
                   wkPc, wkCall, replied, hwrites, ctxDone, ctxCause, sent,
                   crashed>>
    /\ UNCHANGED restOfSrv

\* ReadCall fails: the read hit end-of-stream (the peer hung up and nothing it
\* sent is left to read), the connection broke, or this side closed it.
ReaderFail ==
    /\ ~crashed
    /\ rdPc = "reading"
    /\ peer \in {"closed", "reset", "shut"}
    /\ LET err == readMsgError(CASE peer = "closed" -> ErrIoEOF
                                  [] peer = "reset"  -> ErrRecvReset
                                  [] OTHER           -> ErrNetClosed)
       IN  /\ rdErr' = err
           /\ IF ReaderSeesDisconnect(err)
              THEN CancelCause("PeerDisconnected")
              ELSE UNCHANGED <<ctxDone, ctxCause>>
    /\ rdPc' = "exited"
    /\ UNCHANGED <<nRead, peer, werr, handlerNil, overflowFn, rdCall,
                   rejected, pipeline, wkPc, wkCall, replied, hwrites, sent,
                   crashed>>
    /\ UNCHANGED restOfSrv

\* select: case pipeline <- call. The loop variable is dead until the next
\* ReadCall overwrites it.
ReaderSend ==
    /\ ~crashed
    /\ rdPc = "select"
    /\ ~PipelineFull
    /\ pipeline' = Append(pipeline, rdCall)
    /\ rdCall' = NoCall
    /\ rdPc' = "idle"
    /\ UNCHANGED <<nRead, peer, werr, handlerNil, overflowFn, rdErr, rejected,
                   wkPc, wkCall, replied, hwrites, ctxDone, ctxCause, sent,
                   crashed>>
    /\ UNCHANGED restOfSrv

\* select: case <-ctx.Done(): the loop returns with the call in hand.
ReaderCtxDone ==
    /\ ~crashed
    /\ rdPc = "select"
    /\ ctxDone
    /\ rdPc' = "exited"
    /\ UNCHANGED <<nRead, peer, werr, handlerNil, overflowFn, rdCall, rdErr,
                   rejected, pipeline, wkPc, wkCall, replied, hwrites,
                   ctxDone, ctxCause, sent, crashed>>
    /\ UNCHANGED restOfSrv

\* select: default, taken when no other case is ready: a fresh replyWriter
\* writes the error of PipelineOverflowErrorFunc.
ReaderOverflow(res) ==
    /\ ~crashed
    /\ rdPc = "select"
    /\ ~pipelineErrorFuncNil
    /\ PipelineFull
    /\ ~ctxDone
    /\ res \in WriteResults
    /\ WriteReplyEffects(FALSE, rdCall, overflowFn, FALSE, overflowFn.code, res)
    /\ rejected' = rejected \cup {rdCall.id}
    /\ rdCall' = NoCall
    /\ rdPc' = "idle"
    /\ UNCHANGED <<nRead, peer, handlerNil, overflowFn, rdErr, pipeline, wkPc,
                   wkCall, replied, hwrites>>
    /\ UNCHANGED restOfSrv

\* ---------------------------------------------------- ServeSession: worker

\* A worker that takes every handler to have replied.
hasRepliedAlways == TRUE

\* replyWriter.hasReplied.
hasReplied == replied

\* for call = range pipeline: the worker receives a call and makes its writer.
WorkerTake ==
    /\ ~crashed
    /\ wkPc = "recv"
    /\ pipeline # <<>>
    /\ wkCall' = Head(pipeline)
    /\ pipeline' = Tail(pipeline)
    /\ replied' = FALSE
    /\ wkPc' = IF handlerNil THEN "notfound" ELSE "handler"
    /\ UNCHANGED <<nRead, peer, werr, handlerNil, overflowFn, rdPc, rdCall,
                   rdErr, rejected, hwrites, ctxDone, ctxCause, sent, crashed>>
    /\ UNCHANGED restOfSrv

\* s.Handler == nil: w.WriteError(service.MethodNotFound(call.Method)); continue.
\* The writer and the call go out of scope.
WorkerNotFound(res) ==
    /\ ~crashed
    /\ wkPc = "notfound"
    /\ res \in WriteResults
    /\ WriteReplyEffects(replied, wkCall, MethodNotFound, FALSE,
                         MethodNotFound.code, res)
    /\ replied' = FALSE
    /\ wkCall' = NoCall
    /\ wkPc' = "recv"
    /\ UNCHANGED <<nRead, peer, handlerNil, overflowFn, rdPc, rdCall, rdErr,
                   rejected, pipeline, hwrites>>
    /\ UNCHANGED restOfSrv

\* The handler calls w.WriteReply(params, opts...), with or without Continues().
HandlerWriteReply(params, continues, res) ==
    /\ ~crashed
    /\ wkPc = "handler"
    /\ hwrites < MaxHandlerWrites
    /\ res \in WriteResults
    /\ WriteReplyEffects(replied, wkCall, params, continues, "", res)
    /\ replied' = RepliedAfter(replied, params, continues, res)
    /\ hwrites' = hwrites + 1
    /\ UNCHANGED <<nRead, peer, handlerNil, overflowFn, rdPc, rdCall, rdErr,
                   rejected, pipeline, wkPc, wkCall>>
    /\ UNCHANGED restOfSrv

\* The handler calls w.WriteError(err): WriteReply(err, ErrorCode(err.ErrorCode())).
HandlerWriteError(err, res) ==
    /\ ~crashed
    /\ wkPc = "handler"
    /\ hwrites < MaxHandlerWrites
    /\ res \in WriteResults
    /\ WriteReplyEffects(replied, wkCall, err, FALSE, err.code, res)
    /\ replied' = RepliedAfter(replied, err, FALSE, res)
    /\ hwrites' = hwrites + 1
    /\ UNCHANGED <<nRead, peer, handlerNil, overflowFn, rdPc, rdCall, rdErr,
                   rejected, pipeline, wkPc, wkCall>>
    /\ UNCHANGED restOfSrv

\* Handler.ServeMethod returns, and the worker tests the session context:
\* if err := ctx.Err(); err != nil { return }
HandlerReturn ==
    /\ ~crashed
    /\ wkPc = "handler"
    /\ wkPc' = IF ctxDone THEN "exited" ELSE "checked"
    /\ UNCHANGED <<nRead, peer, werr, handlerNil, overflowFn, rdPc, rdCall,
                   rdErr, rejected, pipeline, wkCall, replied, hwrites,
                   ctxDone, ctxCause, sent, crashed>>
    /\ UNCHANGED restOfSrv

\* if !w.hasReplied() { w.WriteError(service.MethodNotImplemented(call.Method)) }
\* and back to the range loop; the writer and the call go out of scope.
WorkerPolice(res) ==
    /\ ~crashed
    /\ wkPc = "checked"
    /\ res \in WriteResults
    /\ IF ~hasReplied
       THEN WriteReplyEffects(replied, wkCall, MethodNotImplemented, FALSE,
                              MethodNotImplemented.code, res)
       ELSE UNCHANGED <<crashed, sent, werr, ctxDone, ctxCause>>
    /\ replied' = FALSE
    /\ wkCall' = NoCall
    /\ wkPc' = "recv"
    /\ UNCHANGED <<nRead, peer, handlerNil, overflowFn, rdPc, rdCall, rdErr,
                   rejected, pipeline, hwrites>>
    /\ UNCHANGED restOfSrv

\* --------------------------------------------------------- the served session

WriteRes == {"ok", "epipe", "ioerr"}
HandlerParams == {PlainParams, BadParams}
HandlerErrors == {NewError("org.example.Failed", 1), NewError("org.example.Failed", 0)}

NextServer ==
    \/ PeerClose
    \/ PeerReset
    \/ SessionClose
    \/ ParentCancel
    \/ ReaderStart
    \/ ReaderRecv
    \/ ReaderFail
    \/ ReaderSend
    \/ ReaderCtxDone
    \/ \E res \in WriteRes : ReaderOverflow(res)
    \/ WorkerTake
    \/ \E res \in WriteRes : WorkerNotFound(res)
    \/ \E params \in HandlerParams, continues \in BOOLEAN,
          res \in WriteRes : HandlerWriteReply(params, continues, res)
    \/ \E err \in HandlerErrors, res \in WriteRes : HandlerWriteError(err, res)
    \/ HandlerReturn
    \/ \E res \in WriteRes : WorkerPolice(res)

SpecServer == InitServer /\ [][NextServer]_vars

\* The goroutines of ServeSession and the handler are scheduled: whatever they
\* can do next, they eventually do. The peer, the owner of the session and the
\* owner of the parent context are under no obligation.
ServeSessionSteps ==
    \/ ReaderStart
    \/ ReaderRecv
    \/ ReaderFail
    \/ ReaderSend
    \/ ReaderCtxDone
    \/ \E res \in WriteRes : ReaderOverflow(res)
    \/ WorkerTake
    \/ \E res \in WriteRes : WorkerNotFound(res)
    \/ HandlerReturn
    \/ \E res \in WriteRes : WorkerPolice(res)

SpecServerLive == SpecServer /\ WF_vars(ServeSessionSteps)

\* ------------------------------------------------------------ Server.Serve
\* The accept loop of Serve, one ServeConn goroutine per accepted connection.

\* The owner of the listener closes it: Accept fails with net.ErrClosed.
ListenerClose ==
    /\ lst = "open"
    /\ lst' = "closed"
    /\ UNCHANGED <<svPc, svRet, svCtx, conns>>
    /\ UNCHANGED restOfServe

\* The listener fails: Accept returns an error other than net.ErrClosed.
ListenerFail ==
    /\ lst = "open"
    /\ lst' = "broken"
    /\ UNCHANGED <<svPc, svRet, svCtx, conns>>
    /\ UNCHANGED restOfServe

\* What Serve returns for a failed Accept, by the switch on its error.
ServeResult(l) == IF l = "closed" THEN "nil" ELSE "error"

\* l.Accept() returns a connection: wg.Add(1) and go ServeConn(ctx, conn).
Accept(i) ==
    /\ svPc = "accept"
    /\ lst = "open"
    /\ conns[i] = "none"
    /\ \A j \in Conns : j < i => conns[j] # "none"
    /\ conns' = [conns EXCEPT ![i] = "serving"]
    /\ UNCHANGED <<lst, svPc, svRet, svCtx>>
    /\ UNCHANGED restOfServe

\* l.Accept() returns an error: Serve executes its return statement.
AcceptError ==
    /\ svPc = "accept"
    /\ lst # "open"
    /\ svRet' = ServeResult(lst)
    /\ svPc' = "cancel"
    /\ UNCHANGED <<lst, svCtx, conns>>
    /\ UNCHANGED restOfServe

\* The deferred function of Serve: cancel().
ServeCancel ==
    /\ svPc = "cancel"
    /\ svCtx' = TRUE
    /\ svPc' = "wait"
    /\ UNCHANGED <<lst, svRet, conns>>
    /\ UNCHANGED restOfServe

\* The deferred function of Serve: wg.Wait() returns once every ServeConn
\* goroutine is done, and Serve returns to its caller.
ServeWait ==
    /\ svPc = "wait"
    /\ \A i \in Conns : conns[i] \in {"none", "done"}
    /\ svPc' = "returned"
    /\ UNCHANGED <<lst, svRet, svCtx, conns>>
    /\ UNCHANGED restOfServe

\* ServeConn: ServeSession returns (its ReadCall failed, or it saw the
\* context done).
ServeConn_return(i) ==
    /\ conns[i] = "serving"
    /\ conns' = [conns EXCEPT ![i] = "closing"]
    /\ UNCHANGED <<lst, svPc, svRet, svCtx>>
    /\ UNCHANGED restOfServe

\* ServeConn: the deferred session.Close(), then wg.Done().
ServeConn_close(i) ==
    /\ conns[i] = "closing"
    /\ conns' = [conns EXCEPT ![i] = "done"]
    /\ UNCHANGED <<lst, svPc, svRet, svCtx>>
    /\ UNCHANGED restOfServe

InitServe == NewServe /\ NewSession /\ ServerAtRest /\ NewReplyStream /\ NewTransport
                 /\ NewUnixConn /\ NewLocks /\ NewDocument /\ NewWriter /\ NewInflight /\ NewLexer

NextServe ==
    \/ ListenerClose
    \/ ListenerFail
    \/ \E i \in Conns : Accept(i)
    \/ AcceptError
    \/ ServeCancel
    \/ ServeWait
    \/ \E i \in Conns : ServeConn_return(i)
    \/ \E i \in Conns : ServeConn_close(i)

SpecServe == InitServe /\ [][NextServe]_vars

\* ------------------------------------------------------------- ReplyStream
\* One ReplyStream, for a call the peer answers with rsN replies: continues is
\* true on all but the last.  ReadReply hands the replies over in order, or
\* fails once the session has failed or the context is done.

ReplyCodes == {"", "org.example.Failed"}

\* Next returning whether more replies are to come.
NextProducedIfMore(cur) == cur.continues

\* What Next returns after ReadReply has stored a reply in r.cur.
NextProduced(cur) == TRUE

\* Next returning true although ReadReply failed.
NextFailedTrue == TRUE

\* What Next returns after ReadReply has failed.
NextFailed == FALSE

\* The session breaks, or the context given to RoundTrip is cancelled.
StreamBreak ==
    /\ ~rsBroken
    /\ rsBroken' = TRUE
    /\ UNCHANGED <<rsN, rsMore, rsCur, rsErr, rsGot, rsTried, rsRet>>
    /\ UNCHANGED restOfStrm

\* Next when r.more is false: it returns false at once.
Next_noMore ==
    /\ Len(rsRet) < MaxNext
    /\ ~rsMore
    /\ rsRet' = Append(rsRet, FALSE)
    /\ UNCHANGED <<rsN, rsBroken, rsMore, rsCur, rsErr, rsGot, rsTried>>
    /\ UNCHANGED restOfStrm

\* Next when ReadReply returns the next reply of the peer, whose error code
\* is code.
Next_reply(code) ==
    /\ Len(rsRet) < MaxNext
    /\ rsMore
    /\ ~rsBroken
    /\ rsGot < rsN
    /\ LET cur == [continues |-> rsGot + 1 < rsN, error |-> code]
       IN  /\ rsCur' = cur
           /\ rsErr' = IF cur.error # "" THEN "varlinkError" ELSE "nil"
           /\ rsMore' = cur.continues
           /\ rsRet' = Append(rsRet, NextProduced(cur))
    /\ rsGot' = rsGot + 1
    /\ rsTried' = rsTried + 1
    /\ UNCHANGED <<rsN, rsBroken>>
    /\ UNCHANGED restOfStrm

\* Next when ReadReply returns an error.
Next_error ==
    /\ Len(rsRet) < MaxNext
    /\ rsMore
    /\ rsBroken
    /\ rsErr' = "session"
    /\ rsMore' = FALSE
    /\ rsRet' = Append(rsRet, NextFailed)
    /\ rsTried' = rsTried + 1
    /\ UNCHANGED <<rsN, rsBroken, rsCur, rsGot>>
    /\ UNCHANGED restOfStrm

InitStream ==
    /\ rsN \in 1..MaxReplies
    /\ rsBroken = FALSE
    /\ rsMore = TRUE
    /\ rsCur = NoReply
    /\ rsErr = "nil"
    /\ rsGot = 0
    /\ rsTried = 0
    /\ rsRet = <<>>
    /\ NewSession /\ ServerAtRest /\ NewServe /\ NewTransport /\ NewUnixConn /\ NewLocks /\ NewDocument
    /\ NewWriter
    /\ NewInflight
    /\ NewLexer

NextStream ==
    \/ StreamBreak
    \/ Next_noMore
    \/ \E code \in ReplyCodes : Next_reply(code)
    \/ Next_error

SpecStream == InitStream /\ [][NextStream]_vars

\* --------------------------------------------------------------- Transport
\* MaxTrips goroutines call RoundTrip on one Transport, with a nil session or,
\* from a handler of its Server, with the session the handler serves.
\* The session a RoundTrip dials is numbered after it.

\* URI.String and ParseURI: "<scheme>:<address>", cut at the first ':'.
URIString(u) == <<u.scheme, ":", u.address>>
ParseURI(str) == [scheme |-> str[1], address |-> str[3]]

\* Dial: the error it returns for the string uri, given whether something
\* listens at the address.
Dial(uri, reachable) ==
    LET u == ParseURI(uri)
    IN  IF u.scheme \in {"tcp", "unix"}
        THEN IF reachable THEN "nil" ELSE "dial"
        ELSE "dial"

\* The URI RoundTrip hands to takeSession and giveSession.
SessionKey(call) == call.uri

\* takeSession sizing the channel one above the configured value.
maxsessionsPlusOne == tsMax + 1

\* takeSession: the capacity of the channel of a URI.
maxsessions == IF tsMax <= 0 THEN 1 ELSE tsMax

\* RoundTrip up to the return of takeSession: the channel of the URI hands
\* over a session if it holds one, otherwise Dial opens one or fails, and
\* RoundTrip returns the error of a failed Dial.
RT_take(r, uri, upgrade, reachable) ==
    /\ rtPc[r] = "idle"
    /\ \A d \in Trips : d < r => rtPc[d] # "idle"
    /\ LET call == [uri |-> uri, upgrade |-> upgrade]
           key  == SessionKey(call)
           str  == URIString(key)
       IN  /\ rtCall' = [rtCall EXCEPT ![r] = call]
           /\ rtKey' = [rtKey EXCEPT ![r] = key]
           /\ IF pool[key] # <<>>
              THEN /\ rtSess' = [rtSess EXCEPT ![r] = Head(pool[key])]
                   /\ pool' = [pool EXCEPT ![key] = Tail(pool[key])]
                   /\ rtPc' = [rtPc EXCEPT ![r] = "write"]
                   /\ UNCHANGED <<sess, rtErr>>
              ELSE IF Dial(str, reachable) = "nil"
                   THEN /\ sess' = [sess EXCEPT ![r] =
                                       [state |-> "open", failed |-> FALSE,
                                        uri |-> ParseURI(str)]]
                        /\ rtSess' = [rtSess EXCEPT ![r] = r]
                        /\ rtPc' = [rtPc EXCEPT ![r] = "write"]
                        /\ UNCHANGED <<pool, rtErr>>
                   ELSE /\ rtErr' = [rtErr EXCEPT ![r] = "dial"]
                        /\ rtPc' = [rtPc EXCEPT ![r] = "done"]
                        /\ UNCHANGED <<pool, sess, rtSess>>
    /\ UNCHANGED tsMax
    /\ UNCHANGED restOfTs

\* giveSession sending the session on the channel twice.
giveSessionTwice(uri, i) ==
    IF Len(pool[uri]) < maxsessions
    THEN [pool EXCEPT ![uri] = Append(Append(@, i), i)]
    ELSE pool

\* giveSession: the channel of uri after it was offered session i; a full
\* channel is left as it is.
giveSession(uri, i) ==
    IF Len(pool[uri]) < maxsessions
    THEN [pool EXCEPT ![uri] = Append(@, i)]
    ELSE pool

\* RoundTrip from WriteCall to its return: WriteCall succeeds or returns an
\* error; then the deferred giveSession, registered unless the call upgrades,
\* stores the session in the channel or closes it when the channel is full.
RT_write(r, ok) ==
    /\ rtPc[r] = "write"
    /\ ok => sess[rtSess[r]].state = "open" /\ ~sess[rtSess[r]].failed
    /\ rtErr' = [rtErr EXCEPT ![r] = IF ok THEN "nil" ELSE "write"]
    /\ LET i    == rtSess[r]
           full == Len(pool[rtKey[r]]) >= maxsessions
       IN  /\ pool' = IF rtCall[r].upgrade THEN pool ELSE giveSession(rtKey[r], i)
           /\ sess' = [sess EXCEPT
                         ![i].failed = @ \/ ~ok,
                         ![i].state  = IF ~rtCall[r].upgrade /\ full
                                       THEN "closed" ELSE @]
    /\ rtPc' = [rtPc EXCEPT ![r] = IF ok THEN "stream" ELSE "done"]
    /\ UNCHANGED <<tsMax, rtCall, rtKey, rtSess>>
    /\ UNCHANGED restOfTs

\* The RoundTrips that were passed a session: they called neither takeSession
\* nor giveSession.
WithSession == {r \in Trips : rtKey[r] = EmptyURI /\ rtCall[r].uri # EmptyURI}

\* RoundTrip with a session: replyWriter.Call passes the session i that the
\* Transport dialed and that its ServeSession serves.  Nothing is taken from
\* a channel and nothing is given back, whether the call upgrades or not;
\* WriteCall succeeds or returns an error.
RT_session(r, i, upgrade, ok) ==
    /\ rtPc[r] = "idle"
    /\ Cardinality(WithSession) < MaxWithSession
    /\ \A d \in Trips : d < r => rtPc[d] # "idle"
    /\ sess[i].state # "none"
    /\ ok => sess[i].state = "open" /\ ~sess[i].failed
    /\ rtCall' = [rtCall EXCEPT ![r] = [uri |-> sess[i].uri, upgrade |-> upgrade]]
    /\ rtSess' = [rtSess EXCEPT ![r] = i]
    /\ rtErr' = [rtErr EXCEPT ![r] = IF ok THEN "nil" ELSE "write"]
    /\ sess' = [sess EXCEPT ![i].failed = @ \/ ~ok]
    /\ rtPc' = [rtPc EXCEPT ![r] = IF ok THEN "stream" ELSE "done"]
    /\ UNCHANGED <<tsMax, pool, rtKey>>
    /\ UNCHANGED restOfTs

\* The ReplyStream of a RoundTrip reads its last reply, or its ReadReply
\* returns an error.
RT_next(r, ok) ==
    /\ rtPc[r] = "stream"
    /\ ok => sess[rtSess[r]].state = "open" /\ ~sess[rtSess[r]].failed
    /\ IF ok
       THEN UNCHANGED <<sess, rtErr>>
       ELSE /\ sess' = [sess EXCEPT ![rtSess[r]].failed = TRUE]
            /\ rtErr' = [rtErr EXCEPT ![r] = "read"]
    /\ rtPc' = [rtPc EXCEPT ![r] = "done"]
    /\ UNCHANGED <<tsMax, pool, rtCall, rtKey, rtSess>>
    /\ UNCHANGED restOfTs

\* CloseIdleConnections: one session of every channel is received and closed.
CloseIdleConnections ==
    /\ \E u \in URIs : pool[u] # <<>>
    /\ pool' = [u \in URIs |-> IF pool[u] # <<>> THEN Tail(pool[u]) ELSE pool[u]]
    /\ sess' = [i \in Trips |->
                 IF \E u \in URIs : pool[u] # <<>> /\ Head(pool[u]) = i
                 THEN [sess[i] EXCEPT !.state = "closed"]
                 ELSE sess[i]]
    /\ UNCHANGED <<tsMax, rtPc, rtCall, rtKey, rtSess, rtErr>>
    /\ UNCHANGED restOfTs

InitTransport ==
    /\ tsMax \in 0..MaxKeepAlive
    /\ pool = [u \in URIs |-> <<>>]
    /\ sess = [i \in Trips |-> NoSess]
    /\ rtPc = [r \in Trips |-> "idle"]
    /\ rtCall = [r \in Trips |-> NoTripCall]
    /\ rtKey = [r \in Trips |-> EmptyURI]
    /\ rtSess = [r \in Trips |-> 0]
    /\ rtErr = [r \in Trips |-> "nil"]
    /\ NewSession /\ ServerAtRest /\ NewServe /\ NewReplyStream /\ NewUnixConn /\ NewLocks /\ NewDocument
    /\ NewWriter
    /\ NewInflight
    /\ NewLexer

NextTransport ==
    \/ \E r \in Trips, uri \in CallURIs, upgrade \in BOOLEAN,
          reachable \in BOOLEAN : RT_take(r, uri, upgrade, reachable)
    \/ \E r \in Trips, ok \in BOOLEAN : RT_write(r, ok)
    \/ \E r \in Trips, i \in Trips, upgrade \in BOOLEAN, ok \in BOOLEAN :
          RT_session(r, i, upgrade, ok)
    \/ \E r \in Trips, ok \in BOOLEAN : RT_next(r, ok)
    \/ CloseIdleConnections

SpecTransport == InitTransport /\ [][NextTransport]_vars

\* ------------------------------------------- UnixConn: file descriptors
\* A Go slice is a view of a backing array: [arr |-> index of the array in
\* fdArr (0 for nil), len |-> length]; its capacity is the length of the
\* array.  The j-th descriptor of the m-th message of the peer is <<m, j>>.

NoFd == <<0, 0>>

Cap(sl) == IF sl.arr = 0 THEN 0 ELSE Len(fdArr[sl.arr])

\* The elements of a slice, read from the arrays arrs.
Elems(arrs, sl) == IF sl.arr = 0 THEN <<>> ELSE SubSeq(arrs[sl.arr], 1, sl.len)

\* The capacity append gives the array it allocates when old is too small.
GrowCap(old, needed) == IF needed > 2 * old THEN needed ELSE 2 * old

\* append(sl, fds...): the slice it returns.
AppendSlice(sl, fds) ==
    IF fds = <<>> THEN sl
    ELSE IF sl.len + Len(fds) <= Cap(sl)
         THEN [arr |-> sl.arr, len |-> sl.len + Len(fds)]
         ELSE [arr |-> Len(fdArr) + 1, len |-> sl.len + Len(fds)]

\* append(sl, fds...): the backing arrays afterwards.  Within the capacity
\* the elements are written into the array of sl; otherwise a larger array
\* is allocated and the elements of sl are copied into it.
AppendArrays(sl, fds) ==
    IF fds = <<>> THEN fdArr
    ELSE IF sl.len + Len(fds) <= Cap(sl)
         THEN [fdArr EXCEPT ![sl.arr] =
                 [k \in 1..Len(@) |->
                     IF k > sl.len /\ k <= sl.len + Len(fds)
                     THEN fds[k - sl.len] ELSE @[k]]]
         ELSE Append(fdArr,
                 [k \in 1..GrowCap(Cap(sl), sl.len + Len(fds)) |->
                     IF k <= sl.len THEN fdArr[sl.arr][k]
                     ELSE IF k <= sl.len + Len(fds) THEN fds[k - sl.len]
                     ELSE NoFd])

\* CollectFds: the slice u.rfds is left with, u.rfds[:0]; the slice returned
\* is sl itself.
CollectFdsKeep(sl) == [arr |-> sl.arr, len |-> 0]

\* The peer sends a message with n descriptors attached.
FdPeerSend(n) ==
    /\ fdSent < MaxFdMsgs
    /\ fdSent' = fdSent + 1
    /\ fdSock' = Append(fdSock, [j \in 1..n |-> <<fdSent + 1, j>>])
    /\ UNCHANGED <<fdArr, rfds, fdMsgs, fdConn, fdClosed, rbuf>>
    /\ UNCHANGED restOfFd

\* What becomes of a message readCallOrReply has read: json.Unmarshal
\* fails and the error is returned ("undecodable"), the message is for the
\* reader and is returned to user code ("returned"), or it is of the other
\* kind and is appended to cq or rq ("parked").
Fates == {"undecodable", "returned", "parked"}

\* How many messages one recvmsg can return when the buffer of session.rw is
\* refilled: the bytes that are in the socket, up to the size of the buffer
\* and not past a message that carries descriptors.
Recvable == {k \in 1..Len(fdSock) : \A i \in 1..(k - 1) : fdSock[i] = <<>>}

\* readMsgUnlocked: ReadBytes frames the first message of the buffer; when
\* the buffer is empty it is refilled first by one UnixConn.Read, which takes
\* k messages from the socket and appends their descriptors to u.rfds.  Then
\* CollectFds moves u.rfds to the message; readCallOrReply and its caller
\* decide the fate of the message.
readMsgUnlocked(fate, k) ==
    /\ fdConn = "open"
    /\ IF rbuf = <<>> THEN k \in Recvable ELSE k = 0
    /\ LET buf  == rbuf \o SubSeq(fdSock, 1, k)
           fds  == IF k = 0 THEN <<>> ELSE fdSock[k]
           recv == AppendSlice(rfds, fds)
       IN  /\ fdArr' = AppendArrays(rfds, fds)
           /\ fdMsgs' = Append(fdMsgs, [attached |-> Head(buf), FileDescriptors |-> recv,
                                        got |-> Elems(fdArr', recv), fate |-> fate])
           /\ rfds' = CollectFdsKeep(recv)
           /\ rbuf' = Tail(buf)
    /\ fdSock' = SubSeq(fdSock, k + 1, Len(fdSock))
    /\ UNCHANGED <<fdSent, fdConn, fdClosed>>
    /\ UNCHANGED restOfFd

\* Session.Close: conn.Close() is UnixConn.Close, which calls sysClose on
\* the descriptors in u.rfds and sets u.rfds to nil. Neither walks cq or rq.
UnixConnClose ==
    /\ fdConn = "open"
    /\ fdConn' = "closed"
    /\ LET pending == Elems(fdArr, rfds)
       IN  fdClosed' = fdClosed \cup {pending[k] : k \in 1..Len(pending)}
    /\ rfds' = NilSlice
    /\ UNCHANGED <<fdSock, fdSent, fdArr, fdMsgs, rbuf>>
    /\ UNCHANGED restOfFd

InitFd == NewUnixConn /\ NewLocks /\ NewDocument /\ NewSession /\ ServerAtRest /\ NewServe
            /\ NewReplyStream /\ NewTransport /\ NewWriter /\ NewInflight /\ NewLexer

NextFd ==
    \/ \E n \in 0..MaxFdsPerMsg : FdPeerSend(n)
    \/ \E fate \in Fates, k \in 0..MaxFdMsgs : readMsgUnlocked(fate, k)
    \/ UnixConnClose

SpecFd == InitFd /\ [][NextFd]_vars

\* ------------------------------------------- UnixConn: sending descriptors
\* A descriptor is the number PassFds was given it as.  The caller of Write
\* and PassFds is writeMsg, which holds session.wmu: PassFds does not run
\* while a Write is in progress.  SyscallConn of an open net.UnixConn does not
\* fail, and fewer than _SCM_MAX_FD descriptors are queued.

\* UnixConn.PassFds(fds...) with k descriptors.
PassFds(k) ==
    /\ wpc = "idle"
    /\ wpassed + k <= MaxPassFds
    /\ wfds' = wfds \o [i \in 1..k |-> wpassed + i]
    /\ wpassed' = wpassed + k
    /\ UNCHANGED <<wpc, wbuf, woob, wwritten, wwire, wret>>
    /\ UNCHANGED restOfWr

\* UnixConn.Write(b) up to the loop of send: oob holds the rights of u.wfds.
UnixConnWrite(len) ==
    /\ wpc = "idle"
    /\ Len(wret) < MaxWrites
    /\ wpc' = "send"
    /\ wbuf' = len
    /\ woob' = wfds
    /\ wwritten' = 0
    /\ UNCHANGED <<wfds, wwire, wpassed>>
    /\ UNCHANGED wret
    /\ UNCHANGED restOfWr

\* An oob that is not reset: every chunk carries the rights.
OobKept(oob) == oob

\* What send puts in oob after a chunk has been sent.
OobAfterChunk(oob) == <<>>

\* One turn of the loop of send in which sendmsg sends n bytes.
sendmsg(n) ==
    /\ wpc = "send"
    /\ wbuf > 0
    /\ n \in 1..wbuf
    /\ wwire' = Append(wwire, [n |-> n, fds |-> woob, first |-> wwritten = 0])
    /\ wwritten' = wwritten + n
    /\ wbuf' = wbuf - n
    /\ woob' = OobAfterChunk(woob)
    /\ UNCHANGED <<wfds, wpc, wpassed, wret>>
    /\ UNCHANGED restOfWr

\* What Write leaves in u.wfds: u.wfds[:0].
ClearQueue(q) == <<>>

\* sendmsg fails: send returns written and the error, Write clears the queue
\* and returns them.
sendmsg_error ==
    /\ wpc = "send"
    /\ wbuf > 0
    /\ wret' = Append(wret, [n |-> wwritten, err |-> "sendmsg"])
    /\ wfds' = ClearQueue(wfds)
    /\ wpc' = "idle"
    /\ UNCHANGED <<wbuf, woob, wwritten, wwire, wpassed>>
    /\ UNCHANGED restOfWr

\* The loop of send is over: Write clears the queue and returns len(b).
UnixConnWrite_return ==
    /\ wpc = "send"
    /\ wbuf = 0
    /\ wret' = Append(wret, [n |-> wwritten, err |-> "nil"])
    /\ wfds' = ClearQueue(wfds)
    /\ wpc' = "idle"
    /\ UNCHANGED <<wbuf, woob, wwritten, wwire, wpassed>>
    /\ UNCHANGED restOfWr

InitWrite == NewWriter /\ NewDocument /\ NewLocks /\ NewUnixConn /\ NewSession
               /\ ServerAtRest /\ NewServe /\ NewReplyStream /\ NewTransport /\ NewInflight /\ NewLexer

NextWrite ==
    \/ \E k \in 1..MaxPassFds : PassFds(k)
    \/ \E len \in 0..MaxWriteLen : UnixConnWrite(len)
    \/ \E n \in 1..MaxWriteLen : sendmsg(n)
    \/ sendmsg_error
    \/ UnixConnWrite_return

SpecWrite == InitWrite /\ [][NextWrite]_vars

\* --------------------------------------- cond and the in-flight list
\* cond.Wait reads c.wake while its caller holds c.L, releases c.L and
\* selects on the channel it read and on its context; when the select
\* returns it takes c.L again.  Broadcast closes c.wake and makes a new
\* channel.  Signal has no caller.  Session.Close calls cond.Broadcast
\* without cond.L: its read of c.wake, its close and its write of c.wake
\* are separate steps among the steps of the goroutines that hold cond.L.

\* The goroutines in the select of cond.Wait.
InSelect == {g \in Waiters : ipc[g] = "select"}

\* A Broadcast that closes no channel.
ClosesNothing(ch) == {}

\* close(c.wake): the channels Broadcast closes.
BroadcastCloses(ch) == {ch}

\* make(chan struct{}, 1): the channel Broadcast leaves in c.wake.
NewChannel(made) == made + 1

\* WriteCall after writeMsg: the call is appended to inflight under cond.L.
inflight_Append(g) ==
    /\ ~ipanic
    /\ ipc[g] = "start"
    /\ iconn = "open"
    /\ condHolder = 0
    /\ ifl' = Append(ifl, g)
    /\ ipc' = [ipc EXCEPT ![g] = "waitCall"]
    /\ UNCHANGED <<condHolder, condWake, chMade, chClosed, wakeOf, iconn, ictx,
                   ipanic, clpc, clch, bsince>>
    /\ UNCHANGED restOfCond

\* waitCall: session.cond.L.Lock().
waitCall_Lock(g) ==
    /\ ~ipanic
    /\ ipc[g] = "waitCall"
    /\ condHolder = 0
    /\ condHolder' = g
    /\ ipc' = [ipc EXCEPT ![g] = "loop"]
    /\ UNCHANGED <<condWake, chMade, chClosed, wakeOf, ifl, iconn, ictx, ipanic,
                   clpc, clch, bsince>>
    /\ UNCHANGED restOfCond

\* waitCall: the test of the loop.  The call is not at the head: cond.Wait
\* reads c.wake and releases cond.L.  It is at the head: waitCall returns nil
\* and its deferred Unlock runs.
waitCall_Loop(g) ==
    /\ ~ipanic
    /\ ipc[g] = "loop"
    /\ IF ifl # <<>> /\ Head(ifl) # g
       THEN /\ wakeOf' = [wakeOf EXCEPT ![g] = condWake]
            /\ ipc' = [ipc EXCEPT ![g] = "select"]
            /\ bsince' = bsince \ {g}
       ELSE /\ ipc' = [ipc EXCEPT ![g] = "readReply"]
            /\ UNCHANGED <<wakeOf, bsince>>
    /\ condHolder' = 0
    /\ UNCHANGED <<condWake, chMade, chClosed, ifl, iconn, ictx, ipanic, clpc,
                   clch>>
    /\ UNCHANGED restOfCond

\* cond.Wait: the select returns, by the channel being closed or by the
\* context being done, and the deferred c.L.Lock() runs.
Wait_Select(g, byCtx) ==
    /\ ~ipanic
    /\ ipc[g] = "select"
    /\ IF byCtx THEN g \in ictx ELSE wakeOf[g] \in chClosed
    /\ condHolder = 0
    /\ condHolder' = g
    /\ ipc' = [ipc EXCEPT ![g] = IF byCtx THEN "waitErr" ELSE "loop"]
    /\ bsince' = bsince \ {g}
    /\ UNCHANGED <<condWake, chMade, chClosed, wakeOf, ifl, iconn, ictx, ipanic,
                   clpc, clch>>
    /\ UNCHANGED restOfCond

\* waitCall returns the error of cond.Wait; its deferred Unlock runs and
\* ReadReply returns the error.
waitCall_Fail(g) ==
    /\ ~ipanic
    /\ ipc[g] = "waitErr"
    /\ condHolder' = 0
    /\ ipc' = [ipc EXCEPT ![g] = "failed"]
    /\ UNCHANGED <<condWake, chMade, chClosed, wakeOf, ifl, iconn, ictx, ipanic,
                   clpc, clch, bsince>>
    /\ UNCHANGED restOfCond

\* session.readReply returns in ReadReply: a terminal reply, a reply that
\* continues (ReadReply returns nil and is called again), or an error, which
\* ReadReply returns leaving inflight as it is.
readReply_Returns(g, out) ==
    /\ ~ipanic
    /\ ipc[g] = "readReply"
    /\ CASE out = "error" -> iconn = "closed" \/ g \in ictx
         [] OTHER         -> iconn = "open"
    /\ ipc' = [ipc EXCEPT ![g] = CASE out = "error"     -> "failed"
                                   [] out = "continues" -> "waitCall"
                                   [] OTHER             -> "remove"]
    /\ UNCHANGED <<condHolder, condWake, chMade, chClosed, wakeOf, ifl, iconn,
                   ictx, ipanic, clpc, clch, bsince>>
    /\ UNCHANGED restOfCond

\* ReadReply after a terminal reply: under cond.L the head of inflight is
\* removed and cond.Broadcast closes c.wake and replaces it.  Closing a
\* channel that is closed panics.
ReadReply_Remove(g) ==
    /\ ~ipanic
    /\ ipc[g] = "remove"
    /\ condHolder = 0
    /\ IF condWake \in chClosed
       THEN /\ ipanic' = TRUE
            /\ UNCHANGED <<condWake, chMade, chClosed, ifl, ipc, bsince>>
       ELSE /\ ifl' = Tail(ifl)
            /\ chClosed' = chClosed \cup BroadcastCloses(condWake)
            /\ condWake' = NewChannel(chMade)
            /\ chMade' = chMade + 1
            /\ bsince' = bsince \cup InSelect
            /\ ipc' = [ipc EXCEPT ![g] = "done"]
            /\ UNCHANGED ipanic
    /\ UNCHANGED <<condHolder, wakeOf, iconn, ictx, clpc, clch>>
    /\ UNCHANGED restOfCond

\* Session.Close, cond.Broadcast: c.wake is read.
Close_Load ==
    /\ ~ipanic
    /\ clpc = "idle"
    /\ clch' = condWake
    /\ clpc' = "loaded"
    /\ UNCHANGED <<condHolder, condWake, chMade, chClosed, wakeOf, ipc, ifl,
                   iconn, ictx, ipanic, bsince>>
    /\ UNCHANGED restOfCond

\* Session.Close, cond.Broadcast: close of the channel that was read.
Close_Close ==
    /\ ~ipanic
    /\ clpc = "loaded"
    /\ IF clch \in chClosed
       THEN /\ ipanic' = TRUE
            /\ UNCHANGED <<chClosed, bsince, clpc>>
       ELSE /\ chClosed' = chClosed \cup BroadcastCloses(clch)
            /\ bsince' = bsince \cup InSelect
            /\ clpc' = "closed"
            /\ UNCHANGED ipanic
    /\ UNCHANGED <<condHolder, condWake, chMade, wakeOf, ipc, ifl, iconn, ictx,
                   clch>>
    /\ UNCHANGED restOfCond

\* Session.Close, cond.Broadcast: c.wake = make(...); then conn.Close().
Close_Replace ==
    /\ ~ipanic
    /\ clpc = "closed"
    /\ condWake' = NewChannel(chMade)
    /\ chMade' = chMade + 1
    /\ iconn' = "closed"
    /\ clpc' = "done"
    /\ UNCHANGED <<condHolder, chClosed, wakeOf, ipc, ifl, ictx, ipanic, clch,
                   bsince>>
    /\ UNCHANGED restOfCond

\* The context a goroutine passed to ReadReply becomes done.
WaiterCancel(g) ==
    /\ ~ipanic
    /\ g \notin ictx
    /\ ipc[g] \notin {"done", "failed"}
    /\ ictx' = ictx \cup {g}
    /\ UNCHANGED <<condHolder, condWake, chMade, chClosed, wakeOf, ipc, ifl,
                   iconn, ipanic, clpc, clch, bsince>>
    /\ UNCHANGED restOfCond

InitInflight == NewInflight /\ NewWriter /\ NewDocument /\ NewLocks /\ NewUnixConn
                  /\ NewSession /\ ServerAtRest /\ NewServe /\ NewReplyStream
                  /\ NewTransport /\ NewLexer

\* The steps of the goroutines inside the Session.
InflightSteps ==
    \/ \E g \in Waiters : inflight_Append(g)
    \/ \E g \in Waiters : waitCall_Lock(g)
    \/ \E g \in Waiters : waitCall_Loop(g)
    \/ \E g \in Waiters, byCtx \in BOOLEAN : Wait_Select(g, byCtx)
    \/ \E g \in Waiters : waitCall_Fail(g)
    \/ \E g \in Waiters : readReply_Returns(g, "error")
    \/ \E g \in Waiters : ReadReply_Remove(g)
    \/ Close_Close
    \/ Close_Replace

NextInflight ==
    \/ InflightSteps
    \/ \E g \in Waiters, out \in {"reply", "continues"} : readReply_Returns(g, out)
    \/ Close_Load
    \/ \E g \in Waiters : WaiterCancel(g)

SpecInflight == InitInflight /\ [][NextInflight]_vars

\* The goroutines are scheduled and a Close that has started goes on; the
\* peer, the owners of the contexts and the caller of Close are free.
SpecInflightLive == SpecInflight /\ WF_vars(InflightSteps)

\* ------------------------------------------------- the shared client Session
\* NumCallers goroutines share one Session; each writes one call and reads
\* replies for it until the terminal one (ReplyStream.Next).  One more
\* goroutine calls ReadCall in a loop.  The peer answers the calls in the order
\* it reads them from the connection and makes calls of its own.  The
\* connection stays up; waits on a cond are enabled whenever their loop
\* condition is false, which allows every wake-up the code can produce.

\* Session.WriteCall up to the return of writeMsg: the context check, then the
\* write of the whole message under wmu.  The caller chose the oneway flag of
\* its call; WriteCall does not look at it.
WriteCall_writeMsg(c, oneway) ==
    /\ cpc[c] = "start"
    \* the goroutines are alike: they are numbered in the order they enter
    /\ \A d \in Callers : d < c => cpc[d] # "start"
    /\ IF cctx
       THEN /\ cpc' = [cpc EXCEPT ![c] = "failed"]
            /\ wire' = wire
       ELSE /\ wire' = Append(wire, [id |-> c, oneway |-> oneway])
            /\ cpc' = [cpc EXCEPT ![c] = "written"]
    /\ UNCHANGED <<inflight, inbound, rq, cq, reading, got, spc, delivered,
                   peerIdx, peerCont, peerCalls, cctx>>
    /\ UNCHANGED queued
    /\ UNCHANGED restOfSess

\* Session.WriteCall after writeMsg: the append to inflight under cond.L.
WriteCall_append(c) ==
    /\ cpc[c] = "written"
    /\ inflight' = Append(inflight, c)
    /\ cpc' = [cpc EXCEPT ![c] = "waitCall"]
    /\ UNCHANGED <<wire, inbound, rq, cq, reading, got, spc, delivered,
                   peerIdx, peerCont, peerCalls, cctx>>
    /\ UNCHANGED queued
    /\ UNCHANGED restOfSess

\* Session.waitCall: returns once the initiator heads inflight; a wait that the
\* context interrupts returns its error.
waitCall(c) ==
    /\ cpc[c] = "waitCall"
    /\ inflight # <<>>
    /\ IF Head(inflight) = c
       THEN cpc' = [cpc EXCEPT ![c] = "readReply"]
       ELSE /\ cctx
            /\ cpc' = [cpc EXCEPT ![c] = "failed"]
    /\ UNCHANGED <<wire, inflight, inbound, rq, cq, reading, got, spc,
                   delivered, peerIdx, peerCont, peerCalls, cctx>>
    /\ UNCHANGED queued
    /\ UNCHANGED restOfSess

\* Session.readReply up to the read loop: wait while another goroutine reads
\* and rq is empty, then take the head of rq or become the reading goroutine.
readReply(c) ==
    /\ cpc[c] = "readReply"
    /\ IF reading /\ rq = <<>>
       THEN /\ cctx
            /\ cpc' = [cpc EXCEPT ![c] = "failed"]
            /\ UNCHANGED <<rq, got, reading>>
       ELSE IF rq # <<>>
            THEN /\ got' = [got EXCEPT ![c] = Head(rq)]
                 /\ rq' = Tail(rq)
                 /\ cpc' = [cpc EXCEPT ![c] = "return"]
                 /\ UNCHANGED reading
            ELSE /\ reading' = TRUE
                 /\ cpc' = [cpc EXCEPT ![c] = "readCallOrReply"]
                 /\ UNCHANGED <<rq, got>>
    /\ UNCHANGED <<wire, inflight, inbound, cq, spc, delivered,
                   peerIdx, peerCont, peerCalls, cctx>>
    /\ UNCHANGED queued
    /\ UNCHANGED restOfSess

\* readReply returning on a done context without its deferred reset of reading.
readReply_ctxNoDefer(c) ==
    /\ cpc[c] = "readCallOrReply"
    /\ IF cctx
       THEN /\ reading' = reading
            /\ cpc' = [cpc EXCEPT ![c] = "failed"]
       ELSE /\ reading' = reading
            /\ cpc' = [cpc EXCEPT ![c] = "readMsg"]
    /\ UNCHANGED <<wire, inflight, inbound, rq, cq, got, spc, delivered,
                   peerIdx, peerCont, peerCalls, cctx>>
    /\ queued' = IF cctx THEN FALSE ELSE queued
    /\ UNCHANGED restOfSess

\* Session.readCallOrReply, called by readReply: the context check.
readReply_ctx(c) ==
    /\ cpc[c] = "readCallOrReply"
    /\ IF cctx
       THEN /\ reading' = FALSE
            /\ cpc' = [cpc EXCEPT ![c] = "failed"]
       ELSE /\ reading' = reading
            /\ cpc' = [cpc EXCEPT ![c] = "readMsg"]
    /\ UNCHANGED <<wire, inflight, inbound, rq, cq, got, spc, delivered,
                   peerIdx, peerCont, peerCalls, cctx>>
    /\ queued' = IF cctx THEN FALSE ELSE queued
    /\ UNCHANGED restOfSess

\* Session.readCallOrReply, called by readReply: one message is read; a call
\* goes to cq and the loop goes on, a reply ends readReply.
readReply_readMsg(c) ==
    /\ cpc[c] = "readMsg"
    /\ inbound # <<>>
    /\ inbound' = Tail(inbound)
    /\ IF Head(inbound).isCall
       THEN /\ cq' = Append(cq, Head(inbound))
            /\ cpc' = [cpc EXCEPT ![c] = "readCallOrReply"]
            /\ UNCHANGED <<got, reading>>
       ELSE /\ got' = [got EXCEPT ![c] = Head(inbound)]
            /\ reading' = FALSE
            /\ cpc' = [cpc EXCEPT ![c] = "return"]
            /\ cq' = cq
    /\ UNCHANGED <<wire, inflight, rq, spc, delivered,
                   peerIdx, peerCont, peerCalls, cctx>>
    /\ queued' = Head(inbound).isCall
    /\ UNCHANGED restOfSess

\* Session.ReadReply after readReply: a terminal reply removes the head of
\* inflight; the reply is returned to the caller, who reads on after a
\* continues=true reply.
ReadReply(c) ==
    /\ cpc[c] = "return"
    /\ delivered' = Append(delivered, [to |-> c, for |-> got[c].for,
                                       continues |-> got[c].continues])
    /\ IF ~got[c].continues
       THEN /\ inflight' = Tail(inflight)
            /\ cpc' = [cpc EXCEPT ![c] = "done"]
       ELSE /\ inflight' = inflight
            /\ cpc' = [cpc EXCEPT ![c] = "waitCall"]
    /\ got' = [got EXCEPT ![c] = NoMsg]
    /\ UNCHANGED <<wire, inbound, rq, cq, reading, spc,
                   peerIdx, peerCont, peerCalls, cctx>>
    /\ UNCHANGED queued
    /\ UNCHANGED restOfSess

\* Session.ReadCall up to the read loop: wait while another goroutine reads
\* and cq is empty, then take the head of cq or become the reading goroutine.
ReadCall ==
    /\ spc = "idle"
    /\ IF reading /\ cq = <<>>
       THEN /\ cctx
            /\ spc' = "failed"
            /\ UNCHANGED <<cq, reading>>
       ELSE IF cq # <<>>
            THEN /\ cq' = Tail(cq)
                 /\ spc' = "idle"
                 /\ UNCHANGED reading
            ELSE /\ reading' = TRUE
                 /\ spc' = "readCallOrReply"
                 /\ cq' = cq
    /\ UNCHANGED <<wire, inflight, inbound, rq, cpc, got, delivered,
                   peerIdx, peerCont, peerCalls, cctx>>
    /\ UNCHANGED queued
    /\ UNCHANGED restOfSess

\* Session.readCallOrReply, called by ReadCall: the context check.
ReadCall_ctx ==
    /\ spc = "readCallOrReply"
    /\ IF cctx
       THEN /\ reading' = FALSE
            /\ spc' = "failed"
       ELSE /\ reading' = reading
            /\ spc' = "readMsg"
    /\ UNCHANGED <<wire, inflight, inbound, rq, cq, cpc, got, delivered,
                   peerIdx, peerCont, peerCalls, cctx>>
    /\ queued' = IF cctx THEN FALSE ELSE queued
    /\ UNCHANGED restOfSess

\* Session.readCallOrReply, called by ReadCall: one message is read; a reply
\* goes to rq and the loop goes on, a call ends ReadCall.
ReadCall_readMsg ==
    /\ spc = "readMsg"
    /\ inbound # <<>>
    /\ inbound' = Tail(inbound)
    /\ IF Head(inbound).isCall
       THEN /\ reading' = FALSE
            /\ spc' = "idle"
            /\ rq' = rq
       ELSE /\ rq' = Append(rq, Head(inbound))
            /\ spc' = "readCallOrReply"
            /\ reading' = reading
    /\ UNCHANGED <<wire, inflight, cq, cpc, got, delivered,
                   peerIdx, peerCont, peerCalls, cctx>>
    /\ queued' = ~Head(inbound).isCall
    /\ UNCHANGED restOfSess

\* The peer answers the oldest call it has not finished answering.
PeerReply(continues) ==
    /\ Len(inbound) < MaxInbound
    /\ peerIdx <= Len(wire)
    /\ ~wire[peerIdx].oneway
    /\ continues => peerCont < MaxContinues
    /\ inbound' = Append(inbound, [isCall |-> FALSE, for |-> wire[peerIdx].id,
                                   continues |-> continues])
    /\ peerIdx' = IF continues THEN peerIdx ELSE peerIdx + 1
    /\ peerCont' = IF continues THEN peerCont + 1 ELSE peerCont
    /\ UNCHANGED <<wire, inflight, rq, cq, reading, cpc, got, spc, delivered,
                   peerCalls, cctx>>
    /\ UNCHANGED queued
    /\ UNCHANGED restOfSess

\* The peer handles a oneway call: it sends no reply.
PeerOneWay ==
    /\ peerIdx <= Len(wire)
    /\ wire[peerIdx].oneway
    /\ peerIdx' = peerIdx + 1
    /\ UNCHANGED <<wire, inflight, inbound, rq, cq, reading, cpc, got, spc,
                   delivered, peerCont, peerCalls, cctx>>
    /\ UNCHANGED queued
    /\ UNCHANGED restOfSess

\* The peer makes a call of its own.
PeerCall ==
    /\ Len(inbound) < MaxInbound
    /\ peerCalls < MaxPeerCalls
    /\ peerCalls' = peerCalls + 1
    /\ inbound' = Append(inbound, [isCall |-> TRUE, for |-> 0, continues |-> FALSE])
    /\ UNCHANGED <<wire, inflight, rq, cq, reading, cpc, got, spc, delivered,
                   peerIdx, peerCont, cctx>>
    /\ UNCHANGED queued
    /\ UNCHANGED restOfSess

\* The context the goroutines pass to the Session becomes done.
CallerCancel ==
    /\ ~cctx
    /\ cctx' = TRUE
    /\ UNCHANGED <<wire, inflight, inbound, rq, cq, reading, cpc, got, spc,
                   delivered, peerIdx, peerCont, peerCalls>>
    /\ UNCHANGED queued
    /\ UNCHANGED restOfSess

InitSession == NewSession /\ ServerAtRest /\ NewServe /\ NewReplyStream /\ NewTransport
                 /\ NewUnixConn /\ NewLocks /\ NewDocument /\ NewWriter /\ NewInflight /\ NewLexer

NextSession ==
    \/ \E c \in Callers, oneway \in BOOLEAN : WriteCall_writeMsg(c, oneway)
    \/ \E c \in Callers : WriteCall_append(c)
    \/ \E c \in Callers : waitCall(c)
    \/ \E c \in Callers : readReply(c)
    \/ \E c \in Callers : readReply_ctx(c)
    \/ \E c \in Callers : readReply_readMsg(c)
    \/ \E c \in Callers : ReadReply(c)
    \/ ReadCall
    \/ ReadCall_ctx
    \/ ReadCall_readMsg
    \/ \E continues \in BOOLEAN : PeerReply(continues)
    \/ PeerOneWay
    \/ PeerCall
    \/ CallerCancel

SpecSession == InitSession /\ [][NextSession]_vars

\* The goroutines that use the Session are scheduled: whatever one of them can
\* do next, it eventually does. The peer is under no obligation to send
\* anything, and nobody has to cancel the context.
SessionSteps ==
    \/ \E c \in Callers, oneway \in BOOLEAN : WriteCall_writeMsg(c, oneway)
    \/ \E c \in Callers : WriteCall_append(c)
    \/ \E c \in Callers : waitCall(c)
    \/ \E c \in Callers : readReply(c)
    \/ \E c \in Callers : readReply_ctx(c)
    \/ \E c \in Callers : readReply_readMsg(c)
    \/ \E c \in Callers : ReadReply(c)
    \/ ReadCall
    \/ ReadCall_ctx
    \/ ReadCall_readMsg

SpecSessionLive == SpecSession /\ WF_vars(SessionSteps)

\* The Session used for calls that all expect a reply.
NextCancel ==
    \/ \E c \in Callers : WriteCall_writeMsg(c, FALSE)
    \/ \E c \in Callers : WriteCall_append(c)
    \/ \E c \in Callers : waitCall(c)
    \/ \E c \in Callers : readReply(c)
    \/ \E c \in Callers : readReply_ctx(c)
    \/ \E c \in Callers : readReply_readMsg(c)
    \/ \E c \in Callers : ReadReply(c)
    \/ ReadCall
    \/ ReadCall_ctx
    \/ ReadCall_readMsg
    \/ \E continues \in BOOLEAN : PeerReply(continues)
    \/ PeerCall
    \/ CallerCancel

SpecCancel == InitSession /\ [][NextCancel]_vars

\* ------------------------------------- the read side of a Session, lock by lock
\* ReadReply and ReadCall at the level of rcond.L and the wake channel of
\* rcond: one step per lock operation, per wait and per read.  The goroutine
\* "rr" calls ReadReply for the call that heads inflight, "rc1" and "rc2" call
\* ReadCall; each calls again after a return without error.  The peer sends
\* well-formed calls and replies; every reply is a terminal one.

MaxWire == 3

\* Which kind of message the goroutine is reading for, and its queue.
Wanted(g, m) == m.isCall = (g # "rr")
OwnQueue(g) == IF g = "rr" THEN prq ELSE pcq

\* The loop condition of readReply and ReadCall taken as always false.
MustWaitNever(rd, q) == FALSE

\* for session.reading && len(queue) == 0 { rcond.Wait(ctx) }
MustWait(rd, q) == rd /\ q = <<>>

\* A Broadcast that wakes nobody.
BroadcastNone(waiters) == {}

\* cond.Broadcast: close(c.wake) wakes every goroutine that took c.wake in
\* Wait; the new channel is for the waits that follow.
Broadcast(waiters) == waiters

\* The message dropped instead of queued.
ParkDrop(q, m) == q

\* session.cq = append(session.cq, call); session.rq = append(session.rq, reply)
\* The message is marked as one that went through a queue.
Park(q, m) == Append(q, [m EXCEPT !.parked = TRUE])

\* The newest parked message taken first.
TakeLast(q) == [msg |-> q[Len(q)], rest |-> SubSeq(q, 1, Len(q) - 1)]

\* *call, session.cq = session.cq[0], session.cq[1:], and the same for rq.
Take(q) == [msg |-> q[1], rest |-> Tail(q)]

\* readReply / ReadCall: session.rcond.L.Lock().
rcond_Lock(g) ==
    /\ gpc[g] = "idle"
    /\ rcondL = "none"
    /\ rcondL' = g
    /\ gpc' = [gpc EXCEPT ![g] = "loop"]
    /\ UNCHANGED <<condL, rdg, pcq, prq, sock, sockUp, sockSent, hand, gerr,
                   woken, gctx, retCalls, retReplies, nolock, kpc>>
    /\ UNCHANGED restOfLock

\* readReply / ReadCall with rcond.L held: the wait loop evaluates its
\* condition.  Wait takes c.wake and unlocks; otherwise the goroutine takes the
\* head of its queue and returns, or sets reading and enters the read loop.
rcond_Loop(g) ==
    /\ gpc[g] = "loop"
    /\ IF MustWait(rdg, OwnQueue(g))
       THEN /\ gpc' = [gpc EXCEPT ![g] = "wait"]
            /\ woken' = woken \ {g}
            /\ rcondL' = "none"
            /\ UNCHANGED <<rdg, pcq, prq, hand>>
       ELSE IF OwnQueue(g) # <<>>
            THEN /\ hand' = [hand EXCEPT ![g] = Take(OwnQueue(g)).msg]
                 /\ IF g = "rr"
                    THEN prq' = Take(prq).rest /\ pcq' = pcq
                    ELSE pcq' = Take(pcq).rest /\ prq' = prq
                 /\ gpc' = [gpc EXCEPT ![g] = "unlock"]
                 /\ UNCHANGED <<rdg, woken, rcondL>>
            ELSE /\ rdg' = TRUE
                 /\ gpc' = [gpc EXCEPT ![g] = "rcor"]
                 /\ UNCHANGED <<pcq, prq, hand, woken, rcondL>>
    /\ UNCHANGED <<condL, sock, sockUp, sockSent, gerr, gctx, retCalls,
                   retReplies, nolock, kpc>>
    /\ UNCHANGED restOfLock

\* cond.Wait: the select returns when the channel it took is closed or the
\* context is done (either, when both are), then the deferred c.L.Lock().
cond_Wait(g, byCtx) ==
    /\ gpc[g] = "wait"
    /\ IF byCtx THEN gctx ELSE g \in woken
    /\ rcondL = "none"
    /\ rcondL' = g
    /\ woken' = woken \ {g}
    /\ gerr' = [gerr EXCEPT ![g] = byCtx]
    /\ gpc' = [gpc EXCEPT ![g] = IF byCtx THEN "unlock" ELSE "loop"]
    /\ UNCHANGED <<condL, rdg, pcq, prq, sock, sockUp, sockSent, hand, gctx,
                   retCalls, retReplies, nolock, kpc>>
    /\ UNCHANGED restOfLock

\* readCallOrReply: rcond.L.Unlock(), then the check of the context.
readCallOrReply_Unlock(g) ==
    /\ gpc[g] = "rcor"
    /\ rcondL' = "none"
    /\ gerr' = [gerr EXCEPT ![g] = gctx]
    /\ gpc' = [gpc EXCEPT ![g] = IF gctx THEN "relock" ELSE "read"]
    /\ UNCHANGED <<condL, rdg, pcq, prq, sock, sockUp, sockSent, hand, woken,
                   gctx, retCalls, retReplies, nolock, kpc>>
    /\ UNCHANGED restOfLock

\* readCallOrReply: readMsgUnlocked returns the next message, or an error once
\* the connection is closed; the message is stored in *reply or *call.
readCallOrReply_Read(g) ==
    /\ gpc[g] = "read"
    /\ IF ~sockUp
       THEN /\ gerr' = [gerr EXCEPT ![g] = TRUE]
            /\ UNCHANGED <<sock, hand>>
       ELSE /\ sock # <<>>
            /\ hand' = [hand EXCEPT ![g] = Head(sock)]
            /\ sock' = Tail(sock)
            /\ UNCHANGED gerr
    /\ gpc' = [gpc EXCEPT ![g] = "relock"]
    /\ UNCHANGED <<rcondL, condL, rdg, pcq, prq, sockUp, sockSent, woken, gctx,
                   retCalls, retReplies, nolock, kpc>>
    /\ UNCHANGED restOfLock

\* readCallOrReply returns: the deferred rcond.L.Lock().
readCallOrReply_Lock(g) ==
    /\ gpc[g] = "relock"
    /\ rcondL = "none"
    /\ rcondL' = g
    /\ gpc' = [gpc EXCEPT ![g] = "after"]
    /\ UNCHANGED <<condL, rdg, pcq, prq, sock, sockUp, sockSent, hand, gerr,
                   woken, gctx, retCalls, retReplies, nolock, kpc>>
    /\ UNCHANGED restOfLock

\* The read loop after readCallOrReply: rcond.Broadcast(), then return on an
\* error or on a message of the wanted kind (the deferred function resets
\* reading), or append the message to the other queue and read again.
rcond_Broadcast(g) ==
    /\ gpc[g] = "after"
    /\ woken' = woken \cup Broadcast({h \in Readers : gpc[h] = "wait"})
    /\ nolock' = IF rcondL = g THEN nolock ELSE nolock \cup {"rcond"}
    /\ IF gerr[g] \/ Wanted(g, hand[g])
       THEN /\ rdg' = FALSE
            /\ gpc' = [gpc EXCEPT ![g] = "unlock"]
            /\ UNCHANGED <<pcq, prq, hand>>
       ELSE /\ IF hand[g].isCall
               THEN pcq' = Park(pcq, hand[g]) /\ prq' = prq
               ELSE prq' = Park(prq, hand[g]) /\ pcq' = pcq
            /\ hand' = [hand EXCEPT ![g] = NoHand]
            /\ gpc' = [gpc EXCEPT ![g] = "rcor"]
            /\ UNCHANGED rdg
    /\ UNCHANGED <<rcondL, condL, sock, sockUp, sockSent, gerr, gctx, retCalls,
                   retReplies, kpc>>
    /\ UNCHANGED restOfLock

\* readReply / ReadCall return: the deferred rcond.L.Unlock().  ReadCall hands
\* the call to its caller; ReadReply goes on to remove the head of inflight.
rcond_Unlock(g) ==
    /\ gpc[g] = "unlock"
    /\ rcondL' = "none"
    /\ IF gerr[g]
       THEN /\ gpc' = [gpc EXCEPT ![g] = "done"]
            /\ UNCHANGED <<retCalls, retReplies, hand>>
       ELSE /\ gpc' = [gpc EXCEPT ![g] = IF g = "rr" THEN "tail" ELSE "idle"]
            /\ retCalls' = IF g = "rr" THEN retCalls ELSE Append(retCalls, hand[g])
            /\ retReplies' = IF g = "rr" THEN Append(retReplies, hand[g])
                             ELSE retReplies
            /\ hand' = [hand EXCEPT ![g] = NoHand]
    /\ UNCHANGED <<condL, rdg, pcq, prq, sock, sockUp, sockSent, gerr, woken,
                   gctx, nolock, kpc>>
    /\ UNCHANGED restOfLock

\* ReadReply after a terminal reply: session.cond.L.Lock().
ReadReply_Lock ==
    /\ gpc["rr"] = "tail"
    /\ condL = "none"
    /\ condL' = "rr"
    /\ gpc' = [gpc EXCEPT !["rr"] = "tailLocked"]
    /\ UNCHANGED <<rcondL, rdg, pcq, prq, sock, sockUp, sockSent, hand, gerr,
                   woken, gctx, retCalls, retReplies, nolock, kpc>>
    /\ UNCHANGED restOfLock

\* ReadReply after a terminal reply: inflight loses its head,
\* session.cond.Broadcast(), session.cond.L.Unlock().
ReadReply_Broadcast ==
    /\ gpc["rr"] = "tailLocked"
    /\ nolock' = IF condL = "rr" THEN nolock ELSE nolock \cup {"cond"}
    /\ condL' = "none"
    /\ gpc' = [gpc EXCEPT !["rr"] = "idle"]
    /\ UNCHANGED <<rcondL, rdg, pcq, prq, sock, sockUp, sockSent, hand, gerr,
                   woken, gctx, retCalls, retReplies, kpc>>
    /\ UNCHANGED restOfLock

\* Session.Close: wmu.Lock() and rcond.L.Lock().  No writer is part of this
\* model, wmu is free.
Close_Lock ==
    /\ kpc = "idle"
    /\ rcondL = "none"
    /\ rcondL' = "closer"
    /\ kpc' = "locked"
    /\ UNCHANGED <<condL, rdg, pcq, prq, sock, sockUp, sockSent, gpc, hand,
                   gerr, woken, gctx, retCalls, retReplies, nolock>>
    /\ UNCHANGED restOfLock

\* Session.Close: session.cond.Broadcast(), conn.Close(), and the deferred
\* unlocks.
Close_Broadcast ==
    /\ kpc = "locked"
    /\ nolock' = IF condL = "closer" THEN nolock ELSE nolock \cup {"cond"}
    /\ sockUp' = FALSE
    /\ rcondL' = "none"
    /\ kpc' = "done"
    /\ UNCHANGED <<condL, rdg, pcq, prq, sock, sockSent, gpc, hand, gerr,
                   woken, gctx, retCalls, retReplies>>
    /\ UNCHANGED restOfLock

\* The peer sends a call or a reply.
SockSend(isCall) ==
    /\ sockUp
    /\ sockSent < MaxWire
    /\ sockSent' = sockSent + 1
    /\ sock' = Append(sock, [isCall |-> isCall, id |-> sockSent + 1,
                              parked |-> FALSE])
    /\ UNCHANGED <<rcondL, condL, rdg, pcq, prq, sockUp, gpc, hand, gerr,
                   woken, gctx, retCalls, retReplies, nolock, kpc>>
    /\ UNCHANGED restOfLock

\* The context the goroutines pass to ReadReply and ReadCall becomes done.
ReadersCancel ==
    /\ ~gctx
    /\ gctx' = TRUE
    /\ UNCHANGED <<rcondL, condL, rdg, pcq, prq, sock, sockUp, sockSent, gpc,
                   hand, gerr, woken, retCalls, retReplies, nolock, kpc>>
    /\ UNCHANGED restOfLock

InitLocks == NewLocks /\ NewDocument /\ NewUnixConn /\ NewSession /\ ServerAtRest /\ NewServe
               /\ NewReplyStream /\ NewTransport /\ NewWriter /\ NewInflight /\ NewLexer

NextLocks ==
    \/ \E g \in Readers : rcond_Lock(g)
    \/ \E g \in Readers : rcond_Loop(g)
    \/ \E g \in Readers, byCtx \in BOOLEAN : cond_Wait(g, byCtx)
    \/ \E g \in Readers : readCallOrReply_Unlock(g)
    \/ \E g \in Readers : readCallOrReply_Read(g)
    \/ \E g \in Readers : readCallOrReply_Lock(g)
    \/ \E g \in Readers : rcond_Broadcast(g)
    \/ \E g \in Readers : rcond_Unlock(g)
    \/ ReadReply_Lock
    \/ ReadReply_Broadcast
    \/ Close_Lock
    \/ Close_Broadcast
    \/ \E isCall \in BOOLEAN : SockSend(isCall)
    \/ ReadersCancel

SpecLocks == InitLocks /\ [][NextLocks]_vars

\* ---------------------------------------------- syntax: parsing documents

\* The newlines and comments of a document.
NumBlanks(d) == Cardinality({i \in 1..Len(d) : d[i] \in Blanks})

\* A document one lexeme longer is parsed.  Only documents the parser read to
\* their end are extended: the others are parsed the same whatever follows.
ParseDocument(x) ==
    /\ Len(doc) < MaxDoc
    /\ parsed.eof
    /\ x \in Blanks => NumBlanks(doc) < MaxBlanks
    /\ doc' = Append(doc, x)
    /\ parsed' = Parse(doc')
    /\ UNCHANGED restOfSyn

InitSyntax == NewDocument /\ NewLocks /\ NewUnixConn /\ NewSession /\ ServerAtRest
                /\ NewServe /\ NewReplyStream /\ NewTransport /\ NewWriter /\ NewInflight /\ NewLexer

NextSyntax == \E x \in Lexemes : ParseDocument(x)

SpecSyntax == InitSyntax /\ [][NextSyntax]_vars

\* ------------------------------------------- syntax: the token channel
\* The Lexer run rune by rune.  A rune stands for its class: "(" for the runes
\* that make a token alone, " " for a blank, "a" for a rune an identifier can
\* begin with, "!" for a rune the lexer refuses; "[]" is lexed as "[string]"
\* is, into one token.  After the runes, ReadRune returns io.EOF or another
\* error.

\* Length of the longest Input.
MaxRunes == 3
\* Calls of Lexer.Next.
MaxLexNext == 5
\* reset: make(chan Token, 2).
tokensCap == 2

Runes == {"(", "[", "]", "-", ">", "\n", "\r", "#", " ", "a", "!"}

\* acceptUntil, and the loop over blanks: how many runes at the head of in
\* are in S.
RECURSIVE Span(_, _)
Span(in, S) ==
    IF in = <<>> \/ Head(in) \notin S THEN 0 ELSE 1 + Span(Tail(in), S)

\* What one call of a state does: the tokens it emits, the error it hands to
\* Lexer.error ("none" if it does not), the Input it leaves and the state it
\* returns when it did not call Lexer.error.
StateResult(emit, err, in, next) ==
    [emit |-> emit, err |-> err, in |-> in, next |-> next]

\* Lexer.lex.
Lexer_lex(in, end) ==
    IF in = <<>> THEN StateResult(<<>>, end, in, "lex")
    ELSE LET r    == Head(in)
             t    == Tail(in)
             line == SubSeq(t, Span(t, Runes \ {"\n"}) + 1, Len(t))
             word == SubSeq(t, Span(t, {" "}) + 1, Len(t))
         IN  CASE r = "(" -> StateResult(<<"LParen">>, "none", t, "lex")
               [] r = "[" ->
                    IF t = <<>> THEN StateResult(<<>>, end, t, "lex")
                    ELSE IF Head(t) = "]"
                         THEN StateResult(<<"Array">>, "none", Tail(t), "lex")
                         ELSE StateResult(<<>>, "unexpected", Tail(t), "lex")
               [] r = "-" ->
                    IF t = <<>> THEN StateResult(<<>>, end, t, "lex")
                    ELSE IF Head(t) # ">"
                         THEN StateResult(<<>>, "nil", Tail(t), "lex")
                         ELSE StateResult(<<"Arrow">>, "none", Tail(t), "lex")
               [] r = "\n" -> StateResult(<<"Newline">>, "none", t, "lex")
               [] r = "\r" ->
                    IF t = <<>>
                    THEN StateResult(IF end = "EOF" THEN <<"Newline">> ELSE <<>>,
                                     end, t, "lex")
                    ELSE StateResult(<<"Newline">>, "none",
                                     IF Head(t) = "\n" THEN Tail(t) ELSE t, "lex")
               [] r = "#" ->
                    IF line = <<>>
                    THEN IF end = "EOF"
                         THEN StateResult(<<"Comment">>, "none", line, "lex")
                         ELSE StateResult(<<>>, end, line, "lex")
                    ELSE StateResult(<<"Comment">>, "none", Tail(line), "lex")
               [] r = " " ->
                    IF word = <<>>
                    THEN StateResult(IF end = "EOF" THEN <<"Whitespace">> ELSE <<>>,
                                     end, word, "lex")
                    ELSE StateResult(<<"Whitespace">>, "none", word, "lex")
               [] r = "a" -> StateResult(<<>>, "none", in, "lexIdentifier")
               [] OTHER -> StateResult(<<>>, "unexpected", t, "lex")

\* Lexer.lexIdentifier: reIdentifier.Accept matches the identifier at the head
\* of the Input, or returns an error.
Lexer_lexIdentifier(in, match) ==
    IF match
    THEN StateResult(<<"Identifier">>, "none",
                     SubSeq(in, Span(in, {"a"}) + 1, Len(in)), "lex")
    ELSE StateResult(<<>>, "unexpected", Tail(in), "lex")

\* Lexer.error: the type of the token it sends before it closes the channel.
Lexer_error(err) == IF err = "EOF" THEN "EOF" ELSE "Error"

\* Next that calls the state until the channel is full.
RecvReadyWhenFull == Len(lxTokens) >= tokensCap \/ lxClosed

\* Next: the receive of the select can proceed, so that default is not taken.
RecvReady == lxTokens # <<>> \/ lxClosed

\* Next, case token := <-l.tokens: the token at the head of the channel, or
\* the zero Token of a closed and empty channel, is returned.
Next_receive ==
    /\ ~lxBlocked /\ ~lxPanic
    /\ Len(lxRet) < MaxLexNext
    /\ RecvReady
    /\ IF lxTokens # <<>>
       THEN /\ lxRet' = Append(lxRet, Head(lxTokens))
            /\ lxTokens' = Tail(lxTokens)
       ELSE /\ lxRet' = Append(lxRet, "zero")
            /\ UNCHANGED lxTokens
    /\ UNCHANGED <<lxIn, lxEnd, lxState, lxClosed, lxBlocked, lxPanic>>
    /\ UNCHANGED restOfLx

\* Next, default: l.state = l.state().  The state sends its tokens, Lexer.error
\* its token, one after the other; a send on a full channel blocks, and after
\* the send of Lexer.error the channel is closed and the state is nil.
Next_state(match) ==
    /\ ~lxBlocked /\ ~lxPanic
    /\ Len(lxRet) < MaxLexNext
    /\ ~RecvReady
    /\ match => lxState = "lexIdentifier"
    /\ IF lxState = "nil"
       THEN /\ lxPanic' = TRUE
            /\ UNCHANGED <<lxIn, lxState, lxTokens, lxClosed, lxBlocked>>
       ELSE LET res   == IF lxState = "lex"
                         THEN Lexer_lex(lxIn, lxEnd)
                         ELSE Lexer_lexIdentifier(lxIn, match)
                sends == IF res.err = "none"
                         THEN res.emit
                         ELSE Append(res.emit, Lexer_error(res.err))
                room  == tokensCap - Len(lxTokens)
                fits  == Len(sends) <= room
            IN  /\ lxIn' = res.in
                /\ lxTokens' = lxTokens \o (IF fits THEN sends
                                            ELSE SubSeq(sends, 1, room))
                /\ lxBlocked' = ~fits
                /\ lxClosed' = (fits /\ res.err # "none")
                /\ lxState' = IF ~fits THEN lxState
                              ELSE IF res.err # "none" THEN "nil" ELSE res.next
                /\ UNCHANGED lxPanic
    /\ UNCHANGED <<lxEnd, lxRet>>
    /\ UNCHANGED restOfLx

InitLexer ==
    /\ lxIn \in UNION {[1..n -> Runes] : n \in 0..MaxRunes}
    /\ lxEnd \in {"EOF", "ioerr"}
    /\ lxState = "lex"
    /\ lxTokens = <<>>
    /\ lxClosed = FALSE
    /\ lxBlocked = FALSE
    /\ lxPanic = FALSE
    /\ lxRet = <<>>
    /\ ServerAtRest /\ NewSession /\ NewServe /\ NewReplyStream /\ NewTransport
    /\ NewUnixConn /\ NewLocks /\ NewDocument /\ NewWriter /\ NewInflight

NextLexer ==
    \/ Next_receive
    \/ \E match \in BOOLEAN : Next_state(match)

SpecLexer == InitLexer /\ [][NextLexer]_vars

\* ------------------------------------------------ claims: shared client Session

\* The place of call c among the calls written to the connection.
WirePos(c) == CHOOSE k \in 1..Len(wire) : wire[k].id = c

\* Call c was written with oneway set.
OneWayCall(c) == \E k \in 1..Len(wire) : wire[k].id = c /\ wire[k].oneway

\* The terminal replies ReadReply has returned, in order.
TerminalDelivered == SelectSeq(delivered, LAMBDA d : ~d.continues)

\* C1 (as claimed): a goroutine is past waitCall in ReadReply only while its
\* call heads inflight, and (no call being oneway) the k-th terminal reply of
\* the connection is returned to the goroutine that wrote the k-th call,
\* whatever calls of the peer are interleaved.
C1_ReplyFIFO ==
    /\ \A c \in Callers :
          cpc[c] \in {"readReply", "readCallOrReply", "readMsg", "return"}
              => (inflight # <<>> /\ Head(inflight) = c)
    /\ (\A c \in Callers : ~OneWayCall(c)) =>
          \A k \in 1..Len(TerminalDelivered) :
              /\ TerminalDelivered[k].for = wire[k].id
              /\ TerminalDelivered[k].to = wire[k].id

\* C2 (as claimed): the calls of concurrent WriteCalls stand in inflight in
\* the order in which they were written to the connection.
C2_AppendOrderIsWireOrder ==
    \A i, j \in 1..Len(inflight) :
        i < j => WirePos(inflight[i]) < WirePos(inflight[j])

\* C3 (as claimed): the goroutine that wrote a call with oneway set does not
\* wait for a reply in ReadReply, and is given no reply: its Next() consumes
\* the reply of no other call.
C3_OneWayNoReply ==
    \A c \in Callers :
        OneWayCall(c) =>
            /\ cpc[c] \notin {"readReply", "readCallOrReply", "readMsg", "return"}
            /\ \A i \in 1..Len(delivered) : delivered[i].to # c

\* ------------------------------------------------- claims: served session

\* The replies written for call c, in order.
RepliesFor(c) == SelectSeq(sent, LAMBDA e : e.call = c)

\* Call c was received by the worker, and the worker is through with it.
InPipeline(c) == \E i \in 1..Len(pipeline) : pipeline[i].id = c
Taken(c) ==
    /\ c \in 1..nRead
    /\ c \notin rejected
    /\ ~InPipeline(c)
    /\ rdCall.id # c
Finished(c) == Taken(c) /\ wkCall.id # c

C6_AlwaysPanics ==
    [][/\ \A params \in HandlerParams, continues \in BOOLEAN, res \in WriteRes :
            (HandlerWriteReply(params, continues, res) /\ replied) => crashed'
       /\ \A err \in HandlerErrors, res \in WriteRes :
            (HandlerWriteError(err, res) /\ replied) => crashed']_vars

\* C6 (amended): once the writer has sent a terminal reply, a later WriteReply
\* or WriteError on it never writes a second reply; it panics exactly when the
\* writer's context is not done and the parameters marshal, and otherwise
\* returns the context's or the marshalling error.
C6_NoSecondReply ==
    [][/\ \A params \in HandlerParams, continues \in BOOLEAN, res \in WriteRes :
            (HandlerWriteReply(params, continues, res) /\ replied)
                => /\ sent' = sent
                   /\ crashed' <=> (~ctxDone /\ JsonMarshal(params).ok)
       /\ \A err \in HandlerErrors, res \in WriteRes :
            (HandlerWriteError(err, res) /\ replied)
                => /\ sent' = sent
                   /\ crashed' <=> (~ctxDone /\ JsonMarshal(err).ok)]_vars

C6_Witness == crashed /\ replied /\ wkPc = "handler"

\* C7: with PipelineOverflowErrorFunc unset, while the worker holds a call, at
\* most MaxPipelineSize further calls are queued and at most one more has been
\* read; once that one is read the reader is not in ReadCall: it sits in the
\* select with a full pipeline (or has left the loop).
C7_PipelineBound ==
    (pipelineErrorFuncNil /\ wkCall # NoCall) =>
        /\ Len(pipeline) <= maxPipelineSize
        /\ nRead - wkCall.id <= maxPipelineSize + 1
        /\ (nRead - wkCall.id = maxPipelineSize + 1)
              => /\ rdPc \in {"select", "exited"}
                 /\ rdCall.id = nRead
                 /\ PipelineFull

C7_Witness ==
    /\ pipelineErrorFuncNil
    /\ wkPc = "handler"
    /\ rdPc = "select"
    /\ ~ctxDone
    /\ nRead - wkCall.id = maxPipelineSize + 1

\* C8 (as claimed): when the default branch of the select is taken, an error
\* reply carrying the error of PipelineOverflowErrorFunc is written for the
\* call at once.
C8_OverflowReplied ==
    [][\A res \in WriteRes :
         ReaderOverflow(res)
             => sent' = Append(sent, [call |-> rdCall.id, continues |-> FALSE,
                                      error |-> overflowFn.code])]_vars

\* C9 (as claimed): when ReadCall observes end-of-stream, the session context
\* is done with cause PeerDisconnected; on any other read error the reader
\* leaves the context as it is.
C9_EofSetsCause ==
    [][ReaderFail =>
         IF peer = "closed"
         THEN ctxDone' /\ ctxCause' = "PeerDisconnected"
         ELSE UNCHANGED <<ctxDone, ctxCause>>]_vars

\* C9 (amended): when ReadCall observes end-of-stream, the session context is
\* done afterwards, with cause PeerDisconnected unless it had been cancelled
\* before, in which case the earlier cause stays; on any other read error the
\* reader leaves the context as it is.
C9_EofCancels ==
    [][ReaderFail =>
         IF peer = "closed"
         THEN /\ ctxDone'
              /\ ctxCause' = IF ctxDone THEN ctxCause ELSE "PeerDisconnected"
         ELSE UNCHANGED <<ctxDone, ctxCause>>]_vars

C9_Witness ==
    /\ rdErr = ErrPeerDisconnected
    /\ ctxDone
    /\ ctxCause = "PeerDisconnected"
    /\ wkPc = "handler"

\* C10 (as claimed): a reply write that failed with EPIPE is classified as
\* PeerDisconnected and has cancelled the session context with that cause.
C10_EpipeCancels ==
    werr = "epipe" =>
        /\ IsDisconnect(writeMsg("epipe"))
        /\ ctxDone

\* C11: once Session.Close has closed a served session, the context the
\* handlers see through ReplyWriter.Context() eventually becomes done (unless
\* a panic takes the process down first).
C11_CloseCancelsContext == (peer = "shut") ~> (ctxDone \/ crashed)

\* C12: Serve never returns a nil error, whatever makes its accept loop stop.
C12_ServeReturnsError == svPc = "returned" => svRet = "error"

\* The positions at which a goroutine is inside ReadReply.
InReadReply == {"waitCall", "readReply", "readCallOrReply", "readMsg", "return"}

\* C13: once the context is cancelled, a goroutine that is inside ReadReply
\* eventually gets out of it for good (with the cancellation error, or with
\* the terminal reply if that one won the race), even if the peer sends
\* nothing more.
C13_CancelledReadReplyReturns ==
    \A c \in Callers :
        (cctx /\ cpc[c] \in InReadReply) ~> (cpc[c] \in {"failed", "done"})

\* The step by which ReadReply returns its context's error to goroutine c.
ReadReplyCancelled(c) ==
    /\ cpc[c] \in {"waitCall", "readReply", "readCallOrReply"}
    /\ cpc'[c] = "failed"

\* The step by which ReadCall returns its context's error.
ReadCallCancelled ==
    /\ spc \in {"idle", "readCallOrReply"}
    /\ spc' = "failed"

Idle(u) == {pool[u][i] : i \in 1..Len(pool[u])}

\* C17: a RoundTrip whose call has an empty URI takes its session from the
\* pool of unix:@<interface> and gives it back to that pool, and the session
\* it uses was dialed at that URI.
C17_DefaultedEndpoint ==
    \A r \in Trips :
        (rtPc[r] # "idle" /\ rtCall[r].uri = EmptyURI) =>
            /\ rtKey[r] = DefaultedURI(rtCall[r])
            /\ rtSess[r] # 0 => sess[rtSess[r]].uri = DefaultedURI(rtCall[r])

\* C18: the pool never hands out a session on which WriteCall or ReadReply has
\* returned an error, and a RoundTrip that fails closes its session instead
\* of giving it back.
C18_NoFailedSessionReused ==
    [][\A r \in Trips :
         /\ (rtPc[r] = "idle" /\ rtPc'[r] = "write") => ~sess[rtSess'[r]].failed
         /\ (rtPc[r] = "write" /\ rtPc'[r] = "done") =>
                /\ pool' = pool
                /\ sess'[rtSess[r]].state = "closed"]_vars

\* C19: per URI the Transport holds at most MaxKeepAliveSessions sessions (one
\* when that is not positive); a session given back to a full pool is closed
\* and not stored; the session a RoundTrip took for a call that upgrades is
\* in no pool.
C19_PoolBound ==
    /\ [](\A u \in URIs : Len(pool[u]) <= IF tsMax <= 0 THEN 1 ELSE tsMax)
    /\ [](\A r \in Trips \ WithSession, u \in URIs :
            (rtCall[r].upgrade /\ rtSess[r] # 0) => rtSess[r] \notin Idle(u))
    /\ [][\A r \in Trips :
            (rtPc[r] = "write" /\ rtPc'[r] # "write" /\ ~rtCall[r].upgrade
               /\ Len(pool[rtKey[r]]) >= IF tsMax <= 0 THEN 1 ELSE tsMax)
                => /\ pool' = pool
                   /\ sess'[rtSess[r]].state = "closed"]_vars

\* A pool is full, a session that was given back to a full pool has been
\* closed, and a call that upgraded has returned.
C19_Witness ==
    /\ \E u \in URIs : Len(pool[u]) = IF tsMax <= 0 THEN 1 ELSE tsMax
    /\ \E i \in Trips : sess[i].state = "closed" /\ ~sess[i].failed
    /\ \E r \in Trips \ WithSession :
          rtCall[r].upgrade /\ rtPc[r] \in {"stream", "done"} /\ rtSess[r] # 0

\* The descriptors in the FileDescriptors field of the i-th delivered message.
FileDescriptors(i) == Elems(fdArr, fdMsgs[i].FileDescriptors)

\* C20: every descriptor received appears in the FileDescriptors of exactly
\* one delivered message, the one it came with: no list is changed by a later
\* read.
C20_FdInExactlyOneMessage ==
    \A i \in 1..Len(fdMsgs) :
        /\ FileDescriptors(i) = fdMsgs[i].attached
        /\ \A k \in 1..Len(fdMsgs) :
               k # i =>
                 \A a \in 1..Len(fdMsgs[i].attached) :
                   \A b \in 1..Len(FileDescriptors(k)) :
                     FileDescriptors(k)[b] # fdMsgs[i].attached[a]

\* C21: once the session is closed, every descriptor of a message that was
\* read and not returned to user code (parked in cq or rq, or dropped because
\* its JSON did not decode) has been closed.
C21_CloseReleasesUnclaimedFds ==
    fdConn = "closed" =>
        \A i \in 1..Len(fdMsgs) :
            fdMsgs[i].fate # "returned" =>
                \A a \in 1..Len(fdMsgs[i].attached) :
                    fdMsgs[i].attached[a] \in fdClosed

\* C25: on a live session (context not cancelled, connection up, no terminal
\* reply written yet) every WriteError(err) of the handler writes a terminal
\* reply whose error field is err.ErrorCode(), for every Error value.
C25_WriteErrorTransmits ==
    [][\A err \in HandlerErrors, res \in WriteRes :
          (/\ HandlerWriteError(err, res)
           /\ ~ctxDone /\ ~replied /\ peer = "open" /\ werr = "none")
          => sent' = Append(sent, [call |-> wkCall.id, continues |-> FALSE,
                                   error |-> err.code])]_vars

\* ------------------------------------ claims: the read side, lock by lock

\* The goroutines inside the read loop of readReply or ReadCall.
InReadLoop == {g \in Readers : gpc[g] \in {"rcor", "read", "relock", "after"}}

\* C26: the calls of the peer are returned by ReadCall in the order they
\* arrived, whether ReadCall read them itself or took them from cq.
C26_CallsInArrivalOrder ==
    \A i, j \in 1..Len(retCalls) : i < j => retCalls[i].id < retCalls[j].id

\* A call that was parked in cq has been returned, and after it a call that
\* ReadCall read from the connection itself.
C26_Witness ==
    \E i, j \in 1..Len(retCalls) :
        i < j /\ retCalls[i].parked /\ ~retCalls[j].parked

\* C27: at most one goroutine is inside the read loop (readCallOrReply and the
\* statements around it) at any time.
C27_SingleReader == Cardinality(InReadLoop) <= 1

\* One goroutine is blocked reading the connection while another waits on
\* rcond and a third holds rcond.L.
C27_Witness ==
    \E g, h, k \in Readers :
        gpc[g] = "read" /\ gpc[h] = "wait" /\ gpc[k] = "loop" /\ rdg

\* How many times message number n is found in the connection, in the hands
\* of the goroutines, in cq and rq and among the returned messages.
Copies(n) ==
    LET held == sock \o pcq \o prq \o retCalls \o retReplies
    IN  Cardinality({i \in 1..Len(held) : held[i].id = n})
          + Cardinality({g \in Readers : hand[g].id = n})

C29_NoStrandedWaiter ==
    \A g \in Readers :
        (gpc[g] = "wait" /\ g \notin woken) => (rdg /\ InReadLoop \ {g} # {})

\* The reader has left its loop and both other goroutines, which were
\* blocked in rcond.Wait, have been woken.
C29_Witness ==
    /\ ~rdg /\ ~gctx /\ InReadLoop = {}
    /\ Cardinality({g \in Readers : gpc[g] = "wait" /\ g \in woken}) = 2

\* C30: every Broadcast on cond and on rcond ran with the lock of that cond
\* held by the goroutine that called it.
C30_BroadcastUnderOwnLock == nolock = {}

\* -------------------------------------------------------- claims: syntax
\* The first lines of every document of the claims: an interface a.b and the
\* start of its type T.
Header == <<"interface", "a.b", "nl", "type", "T">>

\* The identifiers of the documents that are keywords.
Keywords == {x \in Lexemes : "keyword" \in Groups(x)}

\* What stands between the header and a field name at each field position: the
\* first field and a later one, on the line of "(" or "," and after a newline
\* or a comment.
FieldPositions ==
    {<<"(">>, <<"(", "a", ":", "int", ",">>}
      \cup {<<"(", b>> : b \in Blanks}
      \cup {<<"(", "a", ":", "int", ",", b>> : b \in Blanks}

\* C22: Parse never panics: every failure of the lexer or of the parser is
\* returned by Parse as its error, for every document.
C22_ParseNeverPanics == parsed.st # "panic"

\* C23: after "(" and a first field name, ":" gives a Struct and "," or ")"
\* gives an Enum, so the type (f) is an Enum with the one value f.
C23_StructOrEnum ==
    \A f \in {"a", "T"} :
       /\ doc = Header \o <<"(", f, ":", "int", ")">>
            => /\ parsed.st = "run"
               /\ parsed.types = <<[kind |-> "Struct", names |-> <<f>>]>>
       /\ doc = Header \o <<"(", f, ",", "a", ")">>
            => /\ parsed.st = "run"
               /\ parsed.types = <<[kind |-> "Enum", names |-> <<f, "a">>]>>
       /\ doc = Header \o <<"(", f, ")">>
            => /\ parsed.st = "run"
               /\ parsed.types = <<[kind |-> "Enum", names |-> <<f>>]>>

\* C24: a keyword at a field position of a struct is taken as a field name,
\* whichever the position: in a document that ends with the keyword, the
\* parse fails only because the input ends there.
C24_KeywordIsFieldName ==
    \A k \in Keywords, pos \in FieldPositions :
       doc = Header \o pos \o <<k>>
         => /\ parsed.st = "error"
            /\ parsed.err.type = EOFToken.type
            /\ parsed.err.raw = EOFToken.raw

\* ----------------------------------------- claims: sending descriptors
\* How many sendmsg calls carried the descriptor fd.
TimesSent(fd) ==
    Cardinality({i \in 1..Len(wwire) :
                   \E j \in 1..Len(wwire[i].fds) : wwire[i].fds[j] = fd})

C32_RepliesInCallOrder ==
    \A i, j \in 1..Len(sent) :
        (i < j /\ ~sent[i].continues /\ ~sent[j].continues)
            => sent[i].call <= sent[j].call

\* ---------------------------------------- claims: received descriptors
\* C33: the descriptors delivered with a message are those the peer attached
\* to it, also when one read of the buffered reader takes several messages
\* and their descriptors from the socket.
C33_FdsOfTheirMessage ==
    \A i \in 1..Len(fdMsgs) : fdMsgs[i].got = fdMsgs[i].attached

\* ------------------------------------- claims: served session, the worker
\* C34: after ServeSession has returned, the worker goroutine it started
\* eventually terminates: it does not stay in the receive from the pipeline
\* channel for ever.
C34_WorkerTerminates == (rdPc = "exited") ~> (wkPc = "exited" \/ crashed)

\* ------------------------------------ claims: cond and the in-flight list
\* The states of a goroutine that is in waitCall, its call not yet at the head.
InWaitCall == {"waitCall", "loop", "select"}

\* C35: once Session.Close has returned, every ReadReply that waits for its
\* call to reach the head of inflight eventually returns, its own context
\* not being done.
C35_ClosedSessionReleasesWaiters ==
    \A g \in Waiters :
        (clpc = "done" /\ ipc[g] \in InWaitCall) ~> (ipc[g] \notin InWaitCall \/ ipanic)

\* C39: no wake-up is lost: the channel of a goroutine in the select of
\* cond.Wait is closed by every Broadcast that runs after the goroutine
\* released cond.L, and the goroutine leaves Wait holding cond.L, woken or
\* cancelled.
C39_NoLostWakeup ==
    /\ [](\A g \in InSelect : g \in bsince => wakeOf[g] \in chClosed)
    /\ [][\A g \in Waiters :
            (ipc[g] = "select" /\ ipc'[g] # "select") => condHolder' = g]_vars

\* One goroutine has been cancelled in cond.Wait and holds cond.L again,
\* while for another a Broadcast has closed the channel it selects on.
C39_Witness ==
    /\ \E g \in Waiters : ipc[g] = "waitErr" /\ condHolder = g
    /\ \E g \in InSelect : g \in bsince /\ wakeOf[g] \in chClosed

\* ------------------------------------------- claims: the idle sessions
\* The sessions in the channels of the Transport, all URIs together.
IdleSessions == UNION {Idle(u) : u \in URIs}

\* C36: a session is held at most once in the channels of the Transport and
\* no session in a channel has been closed, whatever the interleaving of
\* RoundTrip (without and with a session, upgrading or not) and
\* CloseIdleConnections.
C36_IdleOnceAndOpen ==
    /\ \A u \in URIs : \A a, b \in 1..Len(pool[u]) :
          a # b => pool[u][a] # pool[u][b]
    /\ \A u, v \in URIs : u # v => Idle(u) \cap Idle(v) = {}
    /\ \A i \in IdleSessions : sess[i].state = "open"

\* A session is idle while a RoundTrip that was passed this session reads its
\* replies, and another session has been closed.
C36_Witness ==
    /\ \E r \in Trips :
          /\ rtPc[r] = "stream"
          /\ rtSess[r] \in IdleSessions
          /\ rtKey[r] = EmptyURI /\ rtCall[r].uri # EmptyURI
    /\ \E i \in Trips : sess[i].state = "closed"

\* C37: a CloseIdleConnections that runs while no RoundTrip is between
\* takeSession and its return leaves every channel empty and has closed every
\* session that was in a channel, whatever MaxKeepAliveSessions is.
C37_CloseIdleClosesAll ==
    [][(/\ pool' # pool
        /\ rtPc' = rtPc
        /\ \A r \in Trips : rtPc[r] # "write")
          => /\ \A u \in URIs : pool'[u] = <<>>
             /\ \A i \in IdleSessions : sess'[i].state = "closed"]_vars

\* -------------------------------------------------- claims: the worker
\* The call n has a terminal reply among the replies handed to WriteReply.
Settled(n) == \E i \in 1..Len(sent) : sent[i].call = n /\ ~sent[i].continues

Terminal == {"EOF", "Error"}

\* C40: the lexer never waits on its own channel and never calls a nil state;
\* a state is called only when the channel is empty and open, and leaves at
\* most two tokens in it; once the token of Lexer.error has been sent the
\* channel is closed and the state is nil, and it is the last token sent.
C40_LexerNeverBlocks ==
    /\ [](/\ ~lxBlocked
          /\ ~lxPanic
          /\ Len(lxTokens) <= tokensCap
          /\ lxClosed <=> lxState = "nil"
          /\ lxClosed <=>
                \/ \E i \in 1..Len(lxTokens) : lxTokens[i] \in Terminal
                \/ \E i \in 1..Len(lxRet) : lxRet[i] \in Terminal
          /\ \A i \in 1..Len(lxTokens) :
                lxTokens[i] \in Terminal => i = Len(lxTokens))
    /\ [][(lxState' # lxState \/ lxIn' # lxIn \/ Len(lxTokens') > Len(lxTokens))
            => /\ lxTokens = <<>>
               /\ ~lxClosed
               /\ ~lxBlocked'
               /\ Len(lxTokens') <= 2]_vars

\* One call of a state has sent two tokens, the second the token of
\* Lexer.error, and Next has returned tokens before.
C40_Witness ==
    /\ Len(lxTokens) = tokensCap
    /\ lxClosed
    /\ lxRet # <<>>

====
